---- MODULE Spec2Model ----
(***************************************************************************)
(* Verification model of watch-next-kodi (Go).                             *)
(*                                                                         *)
(*   SpecMigrate : the schema migrator, internal/database/db.go migrate(), *)
(*                 run over a sequence of process startups on one store.   *)
(*   SpecSync    : the library synchronizer, server handleSyncLibrary with *)
(*                 the library_cache operations of the database package.   *)
(*   SpecImage   : the poster image cache, server downloadBestImage with   *)
(*                 the flightMap of per-file mutexes and its sweep.        *)
(*   SpecFan     : the fan-out of one sync: the units behind the gate sem, *)
(*                 the aggregation mutex and the WaitGroup barrier         *)
(*                 (SpecFanLive: the same under fair scheduling).          *)
(*   SpecSearch  : handleSearch over library_cache while sync handlers     *)
(*                 write to it.                                            *)
(*   SpecDecode  : MediaItem.UnmarshalJSON on one entity object.           *)
(*                                                                         *)
(* Every specification keeps the variables it does not use at their        *)
(* initial value.                                                          *)
(***************************************************************************)
EXTENDS Integers, Sequences, FiniteSets, TLC

VARIABLES
    \* ---- schema migrator -------------------------------------------------
    db,         \* the SQLite store: schema_version table, tables, lists columns and rows
    mpc,        \* position of the process: boot, detect, apply, ok (serving), failed (exited)
    version,    \* local variable `version` of migrate()
    mi,         \* loop variable `i` of the apply loop
    hist,       \* history of the store and of the current run (observation only)
    \* ---- library synchronizer --------------------------------------------
    cache,      \* rows of table library_cache
    req,        \* the in-flight handleSyncLibrary requests
    nsync,      \* number of sync requests accepted so far (SpecSearch: of sync writes)
    \* ---- image cache -----------------------------------------------------
    files,      \* data/posters: state of the local file of each key
    flightMap,  \* fileName -> mutex identity (0: no entry)
    mutexes,    \* mutex identity -> holder (0: unlocked)
    callers,    \* the concurrent downloadBestImage calls
    fetches,    \* number of HTTP requests issued per key (observation only)
    \* ---- fan-out of one sync ---------------------------------------------
    movies,     \* len(movies) / len(shows): the number of fetched entities
    handler,    \* position of handleSyncLibrary and its loop index
    units,      \* number of units (goroutines of wg.Go) at each position
    sem,        \* number of tokens in the channel sem
    wg,         \* counter of the WaitGroup
    mu,         \* the aggregation mutex is locked
    appended,   \* len(itemsToCache), by poster present / empty
    faults,     \* panics and image errors so far (observation only)
    \* ---- search -----------------------------------------------------------
    search,     \* the handleSearch request being served, and its outcome
    \* ---- payload decoding -------------------------------------------------
    payload,    \* the JSON object handed to MediaItem.UnmarshalJSON
    media,      \* the decoded MediaItem
    \* ---- list call --------------------------------------------------------
    response,   \* what the remote side answers to the list request
    listed,     \* the GetMovies call: position, returned collection and error
    \* ---- fuzzy matching ---------------------------------------------------
    probe,      \* a query and one entity's title and show title
    scored,     \* the tier and score FuzzySearch gives to the entity
    \* ---- fuzzy ranking ----------------------------------------------------
    library,    \* a query and the entities handed to FuzzySearch
    ranked,     \* the result of FuzzySearch
    \* ---- watch-list items -------------------------------------------------
    itemRows,   \* rows of table items
    adders,     \* the concurrent AddItem calls
    \* ---- configured lists -------------------------------------------------
    listRows,   \* table lists: its rows and the AUTOINCREMENT sequence
    listSync    \* the last SyncLists call of a startup (observation only)

migVars  == <<db, mpc, version, mi, hist>>
syncVars == <<cache, req, nsync>>
imgVars  == <<files, flightMap, mutexes, callers, fetches>>
fanVars  == <<movies, handler, units, sem, wg, mu, appended, faults>>
searchVars == <<search>>
decVars  == <<payload, media>>
listVars == <<response, listed>>
matchVars == <<probe, scored>>
rankVars == <<library, ranked>>
itemVars == <<itemRows, adders>>
cfgVars  == <<listRows, listSync>>
vars     == <<db, mpc, version, mi, hist, cache, req, nsync,
              files, flightMap, mutexes, callers, fetches,
              movies, handler, units, sem, wg, mu, appended, faults,
              search, payload, media, response, listed, probe, scored,
              library, ranked, itemRows, adders, listRows, listSync>>

\* Largest element of a non-empty finite set of integers.
SetMax(S) == CHOOSE x \in S : \A y \in S : y <= x

(***************************************************************************)
(*                              STRINGS                                    *)
(***************************************************************************)
\* A Go string is modelled as the sequence of its runes, each written as a TLA+ string:
\* "a", "b" and "A" are ASCII letters, "e'" stands for U+00E9 (e with acute accent, two
\* bytes in UTF-8), "!" is punctuation and " " the space.

\* unicode.ToLower of one rune.
LowerRune(ch) == IF ch = "A" THEN "a" ELSE ch

\* strings.ToLower
ToLower(s) == [i \in 1..Len(s) |-> LowerRune(s[i])]

\* unicode.IsLetter(r) || unicode.IsDigit(r)
IsLetterOrDigit(ch) == ch \in {"a", "b", "A", "e'"}

\* Number of bytes of the UTF-8 encoding of one rune.
RuneLen(ch) == IF ch = "e'" THEN 2 ELSE 1

\* len(s) of a Go string: its length in bytes.
RECURSIVE ByteLen(_)
ByteLen(s) == IF s = <<>> THEN 0 ELSE RuneLen(Head(s)) + ByteLen(Tail(s))

\* strings.HasPrefix(s, prefix)
HasPrefix(s, prefix) == Len(prefix) <= Len(s) /\ SubSeq(s, 1, Len(prefix)) = prefix

\* strings.Contains(s, substr)
Contains(s, substr) ==
    \E i \in 0..(Len(s) - Len(substr)) : SubSeq(s, i + 1, i + Len(substr)) = substr

(***************************************************************************)
(*                        SCHEMA MIGRATOR                                  *)
(***************************************************************************)

\* ---- bounds ---------------------------------------------------------------
MaxRows     == 2     \* rows of table lists in a pre-existing store
MaxStartups == 3     \* process startups on the same store

\* Values of the lists.type column written by v1.0.0 configurations.
Labels == {"movies", "tv"}
ContentTypes == {"movie", "tv"}

AllTables == {"lists", "items", "library_cache"}

\* Sequences over S of length at most n.
SeqUpTo(S, n) == UNION {[1..k -> S] : k \in 0..n}

\* A store nothing has been created in.
FreshDB == [vtable |-> FALSE, versions |-> {}, tables |-> {}, cols |-> {}, rows |-> <<>>]

\* Stores left by v1.0.0 (createTables): lists has a column `type`, no version marker.
LegacyV1DBs ==
    {[vtable |-> FALSE, versions |-> {}, tables |-> AllTables, cols |-> {"type"}, rows |-> rs] :
        rs \in SeqUpTo([{"type"} -> Labels], MaxRows)}

\* Stores left by a v1.1.0 build that wrote no version marker: lists has `name`, `content_type`.
LegacyV2DBs ==
    {[vtable |-> FALSE, versions |-> {}, tables |-> AllTables,
      cols |-> {"name", "content_type"}, rows |-> rs] :
        rs \in SeqUpTo({[name |-> "movies", content_type |-> "movie"],
                        [name |-> "tv", content_type |-> "tv"],
                        [name |-> "weekend", content_type |-> "tv"]}, MaxRows)}

\* The migrations slice: each migration is the list of its statements, in source order.
migrations ==
    << <<"create_lists", "create_items", "create_library_cache">>,
       <<"backfill_content_type", "rename_type_to_name", "add_content_type">> >>

NumMigrations == Len(migrations)

\* SELECT COALESCE(MAX(version), 0) FROM schema_version
CurrentVersion(d) == IF d.versions = {} THEN 0 ELSE SetMax(d.versions)

\* One SQL statement on store d: [ok, db].  A statement that names a missing table or
\* column fails ("no such column"), as does a RENAME onto / ADD of an existing column.
ExecStmt(d, s) ==
    CASE s = "create_lists" ->
            [ok |-> TRUE,
             db |-> IF "lists" \in d.tables THEN d
                    ELSE [d EXCEPT !.tables = @ \cup {"lists"}, !.cols = {"type"}, !.rows = <<>>]]
      [] s = "create_items" ->
            [ok |-> TRUE, db |-> [d EXCEPT !.tables = @ \cup {"items"}]]
      [] s = "create_library_cache" ->
            [ok |-> TRUE, db |-> [d EXCEPT !.tables = @ \cup {"library_cache"}]]
      [] s = "backfill_content_type" ->
            \* UPDATE lists SET content_type = 'tv' WHERE name = 'tv'
            IF "lists" \in d.tables /\ {"content_type", "name"} \subseteq d.cols
            THEN [ok |-> TRUE,
                  db |-> [d EXCEPT !.rows = [k \in DOMAIN d.rows |->
                            IF d.rows[k]["name"] = "tv"
                            THEN [d.rows[k] EXCEPT !["content_type"] = "tv"]
                            ELSE d.rows[k]]]]
            ELSE [ok |-> FALSE, db |-> d]
      [] s = "rename_type_to_name" ->
            \* ALTER TABLE lists RENAME COLUMN type TO name
            IF "lists" \in d.tables /\ "type" \in d.cols /\ "name" \notin d.cols
            THEN [ok |-> TRUE,
                  db |-> [d EXCEPT
                            !.cols = (@ \ {"type"}) \cup {"name"},
                            !.rows = [k \in DOMAIN d.rows |->
                                [c \in (d.cols \ {"type"}) \cup {"name"} |->
                                    IF c = "name" THEN d.rows[k]["type"] ELSE d.rows[k][c]]]]]
            ELSE [ok |-> FALSE, db |-> d]
      [] s = "add_content_type" ->
            \* ALTER TABLE lists ADD COLUMN content_type TEXT DEFAULT 'movie'
            IF "lists" \in d.tables /\ "content_type" \notin d.cols
            THEN [ok |-> TRUE,
                  db |-> [d EXCEPT
                            !.cols = @ \cup {"content_type"},
                            !.rows = [k \in DOMAIN d.rows |->
                                [c \in d.cols \cup {"content_type"} |->
                                    IF c = "content_type" THEN "movie" ELSE d.rows[k][c]]]]]
            ELSE [ok |-> FALSE, db |-> d]

\* migrations[i](tx): the statements in order on the transaction's view of the store,
\* stopping at the first error.  fault = k > 0 makes statement k fail in the store.
RECURSIVE ExecAll(_, _, _, _)
ExecAll(d, stmts, k, fault) ==
    IF k > Len(stmts) THEN [ok |-> TRUE, db |-> d]
    ELSE IF fault = k THEN [ok |-> FALSE, db |-> d]
    ELSE LET r == ExecStmt(d, stmts[k])
         IN  IF r.ok THEN ExecAll(r.db, stmts, k + 1, fault) ELSE r

\* Points of a step at which the store can fail: 0 none, 1..n statement k,
\* n+1 the INSERT of the version number, n+2 the COMMIT.
FaultPoints(i) == 0 .. (Len(migrations[i + 1]) + 2)

\* A step whose failure path leaves the transaction's changes in the store.
RunStepNoRollback(d, i, fault) ==
    LET n == Len(migrations[i + 1])
        r == ExecAll(d, migrations[i + 1], 1, fault)
    IN  IF ~r.ok THEN [ok |-> FALSE, db |-> r.db]
        ELSE IF fault = n + 1 THEN [ok |-> FALSE, db |-> r.db]
        ELSE IF fault = n + 2 THEN [ok |-> FALSE, db |-> r.db]
        ELSE [ok |-> TRUE, db |-> [r.db EXCEPT !.versions = @ \cup {i + 1}]]

\* A step that commits its statements without recording the version number.
RunStepVersionUnrecorded(d, i, fault) ==
    LET n == Len(migrations[i + 1])
        r == ExecAll(d, migrations[i + 1], 1, fault)
    IN  IF ~r.ok THEN [ok |-> FALSE, db |-> d]
        ELSE IF fault = n + 1 THEN [ok |-> FALSE, db |-> d]
        ELSE IF fault = n + 2 THEN [ok |-> FALSE, db |-> d]
        ELSE [ok |-> TRUE, db |-> r.db]

\* One iteration of the apply loop: Begin, migrations[i](tx), INSERT version, Commit;
\* Rollback on any error.  [ok, db] with db the committed store afterwards.
RunStep(d, i, fault) ==
    LET n == Len(migrations[i + 1])
        r == ExecAll(d, migrations[i + 1], 1, fault)
    IN  IF ~r.ok THEN [ok |-> FALSE, db |-> d]
        ELSE IF fault = n + 1 THEN [ok |-> FALSE, db |-> d]
        ELSE IF fault = n + 2 THEN [ok |-> FALSE, db |-> d]
        ELSE [ok |-> TRUE, db |-> [r.db EXCEPT !.versions = @ \cup {i + 1}]]

\* Legacy detection that reports the newer layout as version 1.
DetectVersionOffByOne(d) ==
    LET hasType == "type" \in d.cols
        hasName == "name" \in d.cols
    IN  IF hasName THEN 1 ELSE IF hasType THEN 1 ELSE 0

\* The column probes of the legacy detection (lists exists): hasName wins over hasType.
DetectVersion(d) ==
    LET hasType == "type" \in d.cols
        hasName == "name" \in d.cols
    IN  IF hasName THEN 2 ELSE IF hasType THEN 1 ELSE 0

\* Detection that keeps the inferred version in memory only.
PersistVersionSkipped(d, v) == d

\* INSERT INTO schema_version (version) VALUES (?), version
PersistVersion(d, v) == [d EXCEPT !.versions = @ \cup {v}]

HistInit(d) ==
    [db0 |-> d,            \* the store before the first startup
     startups |-> 0,       \* startups so far
     detections |-> 0,     \* times the column probes of the detection ran
     faulted |-> FALSE,    \* a store fault was injected in some startup
     dbAtOpen |-> d,       \* the store when the current run started
     ranDetect |-> FALSE,  \* the current run entered the version == 0 branch
     attempted |-> <<>>,   \* migration numbers the current run began
     applied |-> <<>>,     \* migration numbers the current run committed
     lastFault |-> 0,      \* fault point of the failed step of the current run
     inferred |-> 0,       \* version the legacy detection persisted (0: none)
     committed |-> 0]      \* migration steps committed over all startups

\* InitDB / migrate, steps 1 and 2: create schema_version, read the current version.
MigrateOpen ==
    /\ mpc \in {"boot", "ok", "failed"}
    /\ hist.startups < MaxStartups
    /\ db' = [db EXCEPT !.vtable = TRUE]
    /\ version' = CurrentVersion(db)
    /\ mi' = CurrentVersion(db)
    /\ mpc' = IF CurrentVersion(db) = 0 THEN "detect" ELSE "apply"
    /\ hist' = [hist EXCEPT !.startups = @ + 1, !.dbAtOpen = db, !.ranDetect = FALSE,
                            !.attempted = <<>>, !.applied = <<>>, !.lastFault = 0]
    /\ UNCHANGED <<syncVars, imgVars, fanVars, searchVars, decVars,
                 listVars, matchVars, rankVars, itemVars, cfgVars>>

\* migrate, step 3: legacy detection when the recorded version is zero.
MigrateDetect ==
    /\ mpc = "detect"
    /\ IF "lists" \in db.tables
       THEN /\ version' = DetectVersion(db)
            /\ db' = PersistVersion(db, DetectVersion(db))
            /\ hist' = [hist EXCEPT !.detections = @ + 1, !.ranDetect = TRUE,
                                    !.inferred = DetectVersion(db)]
       ELSE /\ version' = version
            /\ db' = db
            /\ hist' = [hist EXCEPT !.ranDetect = TRUE]
    /\ mi' = version'
    /\ mpc' = "apply"
    /\ UNCHANGED <<syncVars, imgVars, fanVars, searchVars, decVars,
                 listVars, matchVars, rankVars, itemVars, cfgVars>>

\* migrate, step 5: one iteration of the apply loop.
MigrateStep ==
    /\ mpc = "apply"
    /\ mi < NumMigrations
    /\ \E fault \in FaultPoints(mi) :
         LET r == RunStep(db, mi, fault)
         IN  /\ db' = r.db
             /\ IF r.ok
                THEN /\ mi' = mi + 1
                     /\ mpc' = "apply"
                     /\ hist' = [hist EXCEPT !.attempted = Append(@, mi + 1),
                                             !.applied = Append(@, mi + 1),
                                             !.committed = @ + 1]
                ELSE /\ mi' = mi
                     /\ mpc' = "failed"     \* InitDB returns the error, main exits
                     /\ hist' = [hist EXCEPT !.attempted = Append(@, mi + 1),
                                             !.lastFault = fault,
                                             !.faulted = @ \/ (fault # 0)]
    /\ version' = version
    /\ UNCHANGED <<syncVars, imgVars, fanVars, searchVars, decVars,
                 listVars, matchVars, rankVars, itemVars, cfgVars>>

\* migrate returns nil: the loop is over, the process goes on to serve.
MigrateReturn ==
    /\ mpc = "apply"
    /\ mi >= NumMigrations
    /\ mpc' = "ok"
    /\ UNCHANGED <<db, version, mi, hist>>
    /\ UNCHANGED <<syncVars, imgVars, fanVars, searchVars, decVars,
                 listVars, matchVars, rankVars, itemVars, cfgVars>>

MigNext ==
    \/ MigrateOpen
    \/ MigrateDetect
    \/ MigrateStep
    \/ MigrateReturn


(***************************************************************************)
(*                        LIBRARY SYNCHRONIZER                             *)
(***************************************************************************)

\* ---- bounds ---------------------------------------------------------------
MaxReq   == 2     \* handleSyncLibrary requests served at the same time
MaxSyncs == 2     \* sync requests accepted in one behaviour
MaxId    == 2     \* remote identifiers 1..MaxId
MaxFetch == 2     \* entities in one fetched collection

Reqs == 1..MaxReq
Ids  == 1..MaxId

\* Table lists after SyncLists: lists 1 and 2 point at the same host, list 3 at another.
ListIDs == {1, 2, 3}
KodiHost(l) == IF l = 3 THEN "hostB" ELSE "hostA"

\* content_type values the sync handler acts on.
SyncTypes == {"movie", "tv"}

\* content_type values that match no case of the switch in handleSyncLibrary; the
\* plural "movies" is the value clients sent before v1.1.0.
UnsupportedTypes == {"movies"}

\* dbType of handleSyncLibrary.
DbType(syncType) == IF syncType = "tv" THEN "show" ELSE "movie"

\* What downloadBestImage hands to a unit: the public URL of the poster, or "".
Posters == {"", "/api/posters/x.jpg"}

\* The CachedItem a unit appends for entity id.
CachedItem(l, id, t, poster) ==
    [list_id |-> l, kodi_id |-> id, media_type |-> DbType(t), poster_path |-> poster]

\* Rows of library_cache with list_id = l and media_type = mt.
Slice(c, l, mt) == {row \in c : row.list_id = l /\ row.media_type = mt}

\* A cache read restricted to the rows of the searched list.
HostRowsOwnList(c, l, mt) == Slice(c, l, mt)

\* Rows of library_cache of every list that shares the host of list l (the join of
\* GetLibraryCacheCount and SearchLibraryCache).
HostRows(c, l, mt) ==
    {row \in c : KodiHost(row.list_id) = KodiHost(l) /\ row.media_type = mt}

\* GetLibraryCacheCount: COUNT(DISTINCT kodi_id) over the rows of the host.
GetLibraryCacheCount(c, l, mt) == Cardinality({row.kodi_id : row \in HostRows(c, l, mt)})

\* A clear that deletes the rows of the kind in every list.
ClearLibraryCacheAllLists(c, l, mt) == {row \in c : row.media_type # mt}

\* ClearLibraryCache: DELETE FROM library_cache WHERE list_id = ? AND media_type = ?
ClearLibraryCache(c, l, mt) == c \ Slice(c, l, mt)

\* INSERT OR REPLACE of one row: UNIQUE(list_id, kodi_id, media_type).
InsertOrReplace(c, it) ==
    {row \in c : ~(row.list_id = it.list_id /\ row.kodi_id = it.kodi_id
                    /\ row.media_type = it.media_type)} \cup {it}

\* AddToLibraryCache, committed: the rows of items inserted in order.
RECURSIVE AddToLibraryCache(_, _)
AddToLibraryCache(c, items) ==
    IF items = <<>> THEN c
    ELSE AddToLibraryCache(InsertOrReplace(c, Head(items)), Tail(items))

\* The set of rows a sequence of CachedItems amounts to.
RowsOf(items) == AddToLibraryCache({}, items)

IdleReq ==
    [pc |-> "idle", listID |-> 0, syncType |-> "", fetched |-> <<>>, pending |-> {},
     itemsToCache |-> <<>>, status |-> "", count |-> 0,
     \* observation only
     fetchErr |-> FALSE, unitsRun |-> 0, wrote |-> FALSE, clearOk |-> TRUE,
     alone |-> TRUE, prev |-> {}, snap |-> {}]

\* A failed fetch that goes on to the barrier with an empty collection (missing return).
FetchFailedFallThrough(rq) ==
    [rq EXCEPT !.pc = "fanout", !.fetched = <<>>, !.pending = {}, !.fetchErr = TRUE,
               !.status = "error"]

\* GetMovies / GetTVShows returned an error: http.Error 500 and return.
FetchFailed(rq) ==
    [IdleReq EXCEPT !.pc = "done", !.listID = rq.listID, !.syncType = rq.syncType,
                    !.fetchErr = TRUE, !.status = "error"]

Active(rq) == rq.pc \in {"fanout", "add"}

\* The collections the switch on syncType can leave to the fan-out: what GetMovies or
\* GetTVShows returned, or nothing at all when no case matches.
FetchedBy(t) == IF t \in SyncTypes THEN SeqUpTo(Ids, MaxFetch) ELSE {<<>>}

\* handleSyncLibrary up to the start of the fan-out: parameters, getKodiClient, and the
\* fetch of the full collection, which either fails or yields the entities.  A content
\* type that matches no case fetches nothing and goes on to wg.Wait.
SyncFetch(r) ==
    /\ req[r].pc \in {"idle", "done"}
    /\ \A o \in Reqs : o < r => Active(req[o])      \* the first free handler slot
    /\ nsync < MaxSyncs
    /\ nsync' = nsync + 1
    /\ cache' = cache
    /\ \E l \in ListIDs, t \in SyncTypes \cup UnsupportedTypes :
         LET others == \E o \in Reqs \ {r} : Active(req[o])
             start == [IdleReq EXCEPT !.listID = l, !.syncType = t, !.alone = ~others,
                                      !.prev = Slice(cache, l, DbType(t))]
         IN  \/ /\ t \in SyncTypes
                /\ req' = [o \in Reqs |->
                            IF o = r THEN FetchFailed(start)
                            ELSE [req[o] EXCEPT !.alone = @ /\ ~Active(req[o])]]
             \/ \E got \in FetchedBy(t) :
                   req' = [o \in Reqs |->
                            IF o = r
                            THEN [start EXCEPT !.pc = "fanout", !.fetched = got,
                                               !.pending = DOMAIN got]
                            ELSE [req[o] EXCEPT !.alone = @ /\ ~Active(req[o])]]
    /\ UNCHANGED <<migVars, imgVars, fanVars, searchVars, decVars,
                 listVars, matchVars, rankVars, itemVars, cfgVars>>

\* The orders in which the units of a collection of n entities can reach the append.
Orders(n) == {p \in [1..n -> 1..n] : \A i, j \in 1..n : p[i] = p[j] => i = j}

\* The fan-out up to wg.Wait: one unit per fetched entity runs downloadBestImage and
\* appends its CachedItem under mu; the units reach the append in any order.
SyncFanOut(r) ==
    /\ req[r].pc = "fanout"
    /\ req[r].pending # {}
    /\ LET n == Len(req[r].fetched)
       IN  \E order \in Orders(n), poster \in [1..n -> Posters] :
             req' = [req EXCEPT
                       ![r].pending = {},
                       ![r].unitsRun = n,
                       ![r].itemsToCache =
                           [j \in 1..n |->
                               CachedItem(req[r].listID, req[r].fetched[order[j]],
                                          req[r].syncType, poster[order[j]])]]
    /\ UNCHANGED <<cache, nsync>>
    /\ UNCHANGED <<migVars, imgVars, fanVars, searchVars, decVars,
                 listVars, matchVars, rankVars, itemVars, cfgVars>>

\* After wg.Wait: ClearLibraryCache; its error is logged and the handler goes on.
SyncClear(r) ==
    /\ req[r].pc = "fanout"
    /\ req[r].pending = {}
    /\ \E ok \in BOOLEAN :
         /\ cache' = IF ok THEN ClearLibraryCache(cache, req[r].listID, DbType(req[r].syncType))
                     ELSE cache
         /\ req' = [req EXCEPT ![r].pc = "add", ![r].wrote = TRUE, ![r].clearOk = ok]
    /\ UNCHANGED nsync
    /\ UNCHANGED <<migVars, imgVars, fanVars, searchVars, decVars,
                 listVars, matchVars, rankVars, itemVars, cfgVars>>

\* The handler has returned: only the response and the observations are kept; of a
\* request that overlapped another, also the rows it had to write (snap) and whether
\* its clear succeeded.
Responded(rq, status, count) ==
    [IdleReq EXCEPT !.pc = "done", !.listID = rq.listID, !.syncType = rq.syncType,
                    !.status = status, !.count = count, !.fetchErr = rq.fetchErr,
                    !.unitsRun = rq.unitsRun, !.wrote = rq.wrote,
                    !.alone = rq.alone,
                    !.clearOk = rq.alone \/ rq.clearOk,
                    !.snap = IF rq.alone THEN {} ELSE RowsOf(rq.itemsToCache)]

\* AddToLibraryCache in its own transaction, then the response.
SyncAdd(r) ==
    /\ req[r].pc = "add"
    /\ \E ok \in BOOLEAN :
         IF ok
         THEN /\ cache' = AddToLibraryCache(cache, req[r].itemsToCache)
              /\ req' = [req EXCEPT ![r] = Responded(req[r], "success",
                                                     Len(req[r].itemsToCache))]
         ELSE /\ cache' = cache
              /\ req' = [req EXCEPT ![r] = Responded(req[r], "error", 0)]
    /\ UNCHANGED nsync
    /\ UNCHANGED <<migVars, imgVars, fanVars, searchVars, decVars,
                 listVars, matchVars, rankVars, itemVars, cfgVars>>

SyncNext ==
    \/ \E r \in Reqs : SyncFetch(r)
    \/ \E r \in Reqs : SyncFanOut(r)
    \/ \E r \in Reqs : SyncClear(r)
    \/ \E r \in Reqs : SyncAdd(r)


(***************************************************************************)
(*                            IMAGE CACHE                                  *)
(***************************************************************************)

\* ---- bounds ---------------------------------------------------------------
MaxCallers == 2     \* concurrent downloadBestImage calls

Callers == 1..MaxCallers

\* The entities whose poster is asked for: mediaType, item.Title, item.Year.  The first
\* two differ in their titles only by case and punctuation.
ImgEntities ==
    {[mediaType |-> "movie", Title |-> <<"A">>, Year |-> 1999],
     [mediaType |-> "movie", Title |-> <<"a", "!">>, Year |-> 1999],
     [mediaType |-> "show", Title |-> <<"A">>, Year |-> 1999],
     [mediaType |-> "movie", Title |-> <<"A">>, Year |-> 2000]}

NoEntity == [mediaType |-> "", Title |-> <<>>, Year |-> 0]

\* slugify: the lower-cased string without the runes that are neither letter nor digit.
slugify(s) == SelectSeq(ToLower(s), IsLetterOrDigit)

\* A file name built from the title as it is.
FileNameRawTitle(mediaType, title, year) == <<mediaType, title, year>>

\* fileName := fmt.Sprintf("%s_%s_%d.jpg", mediaType, slugify(item.Title), item.Year)
FileName(mediaType, title, year) == <<mediaType, slugify(title), year>>

\* The file names of the entities; NoFile is the key of a call that has not started.
Keys == {FileName(e.mediaType, e.Title, e.Year) : e \in ImgEntities}
NoFile == <<>>

\* publicURL of a key; "" is the empty reference.
PublicURL(k) == <<"/api/posters/", k>>
NoRef == <<>>

\* os.Stat(localPath) succeeds as soon as the file was created.
Exists(f, k) == f[k] # "absent"

\* Positions between mu.Lock() and the deferred mu.Unlock().
InSection == {"recheck", "fetch", "create", "copy"}

\* outcome: what the HTTP request of the call met (observation only).
IdleCaller ==
    [pc |-> "idle", item |-> NoEntity, key |-> NoFile, mu |-> 0, ref |-> NoRef,
     err |-> FALSE, outcome |-> ""]

\* return from downloadBestImage: the deferred mu.Unlock() runs when the lock is held.
Return(c, ref, err) ==
    /\ callers' = [callers EXCEPT ![c].pc = "done", ![c].ref = ref, ![c].err = err]
    /\ mutexes' = IF callers[c].pc \in InSection
                  THEN [mutexes EXCEPT ![callers[c].mu] = 0] ELSE mutexes

\* Entry with a non-empty imageURI on a real host, and the fast path os.Stat.
ImgCall(c) ==
    /\ callers[c].pc = "idle"
    /\ \E e \in ImgEntities :
         LET k == FileName(e.mediaType, e.Title, e.Year)
         IN  IF Exists(files, k)
             THEN /\ callers' = [callers EXCEPT ![c].pc = "done", ![c].item = e,
                                                ![c].key = k, ![c].ref = PublicURL(k)]
                  /\ UNCHANGED <<files, flightMap, mutexes, fetches>>
             ELSE /\ callers' = [callers EXCEPT ![c].pc = "loadOrStore", ![c].item = e,
                                                ![c].key = k]
                  /\ UNCHANGED <<files, flightMap, mutexes, fetches>>
    /\ UNCHANGED <<migVars, syncVars, fanVars, searchVars, decVars,
                 listVars, matchVars, rankVars, itemVars, cfgVars>>

\* flightMap.LoadOrStore(fileName, &sync.Mutex{}): the stored mutex, or the new one,
\* which is identified by the caller that allocated it.
ImgLoadOrStore(c) ==
    /\ callers[c].pc = "loadOrStore"
    /\ LET k == callers[c].key
           m == IF flightMap[k] = 0 THEN c ELSE flightMap[k]
       IN  /\ flightMap' = [flightMap EXCEPT ![k] = m]
           /\ callers' = [callers EXCEPT ![c].pc = "lock", ![c].mu = m]
    /\ UNCHANGED <<files, mutexes, fetches>>
    /\ UNCHANGED <<migVars, syncVars, fanVars, searchVars, decVars,
                 listVars, matchVars, rankVars, itemVars, cfgVars>>

\* mu.Lock(): blocks while the mutex is held.
ImgLock(c) ==
    /\ callers[c].pc = "lock"
    /\ mutexes[callers[c].mu] = 0
    /\ mutexes' = [mutexes EXCEPT ![callers[c].mu] = c]
    /\ callers' = [callers EXCEPT ![c].pc = "recheck"]
    /\ UNCHANGED <<files, flightMap, fetches>>
    /\ UNCHANGED <<migVars, syncVars, fanVars, searchVars, decVars,
                 listVars, matchVars, rankVars, itemVars, cfgVars>>

\* The second os.Stat, under the lock.
ImgRecheck(c) ==
    /\ callers[c].pc = "recheck"
    /\ IF Exists(files, callers[c].key)
       THEN Return(c, PublicURL(callers[c].key), FALSE)
       ELSE /\ callers' = [callers EXCEPT ![c].pc = "fetch"]
            /\ mutexes' = mutexes
    /\ UNCHANGED <<files, flightMap, fetches>>
    /\ UNCHANGED <<migVars, syncVars, fanVars, searchVars, decVars,
                 listVars, matchVars, rankVars, itemVars, cfgVars>>

\* What s.httpClient.Do(req) can meet: a response status, or a transport failure.
Outcomes == {"200", "404", "500", "transport"}

\* A status check that reports a 404 like every other non-success status.
HardErrorOn404(outcome) == outcome # "200"

\* The error returned for an outcome: nil for 200 and for 404, an error otherwise.
HardError(outcome) == outcome \notin {"200", "404"}

\* s.httpClient.Do(req) and the status check.
ImgFetch(c) ==
    /\ callers[c].pc = "fetch"
    /\ \E outcome \in Outcomes :
         /\ fetches' = [fetches EXCEPT ![callers[c].key].n = @ + 1,
                                       ![callers[c].key].failed = @ \/ (outcome # "200")]
         /\ IF outcome = "200"
            THEN /\ callers' = [callers EXCEPT ![c].pc = "create", ![c].outcome = outcome]
                 /\ mutexes' = mutexes
            ELSE /\ callers' = [callers EXCEPT ![c].pc = "done", ![c].ref = NoRef,
                                               ![c].err = HardError(outcome),
                                               ![c].outcome = outcome]
                 /\ mutexes' = [mutexes EXCEPT ![callers[c].mu] = 0]
    /\ UNCHANGED <<files, flightMap>>
    /\ UNCHANGED <<migVars, syncVars, fanVars, searchVars, decVars,
                 listVars, matchVars, rankVars, itemVars, cfgVars>>

\* os.Create(localPath): creates or truncates the file.
ImgCreate(c) ==
    /\ callers[c].pc = "create"
    /\ \E ok \in BOOLEAN :
         IF ok
         THEN /\ files' = [files EXCEPT ![callers[c].key] = "partial"]
              /\ callers' = [callers EXCEPT ![c].pc = "copy"]
              /\ UNCHANGED <<mutexes, fetches>>
         ELSE /\ Return(c, NoRef, TRUE)
              /\ fetches' = [fetches EXCEPT ![callers[c].key].failed = TRUE]
              /\ files' = files
    /\ UNCHANGED flightMap
    /\ UNCHANGED <<migVars, syncVars, fanVars, searchVars, decVars,
                 listVars, matchVars, rankVars, itemVars, cfgVars>>

\* io.Copy(out, resp.Body) and the final return.
ImgCopy(c) ==
    /\ callers[c].pc = "copy"
    /\ \E ok \in BOOLEAN :
         IF ok
         THEN /\ files' = [files EXCEPT ![callers[c].key] = "complete"]
              /\ Return(c, PublicURL(callers[c].key), FALSE)
              /\ fetches' = fetches
         ELSE /\ files' = files
              /\ Return(c, NoRef, TRUE)
              /\ fetches' = [fetches EXCEPT ![callers[c].key].failed = TRUE]
    /\ UNCHANGED flightMap
    /\ UNCHANGED <<migVars, syncVars, fanVars, searchVars, decVars,
                 listVars, matchVars, rankVars, itemVars, cfgVars>>

\* The ticker goroutine of init(): flightMap.Range deleting every key it visits.
Sweep(k) ==
    /\ flightMap[k] # 0
    /\ flightMap' = [flightMap EXCEPT ![k] = 0]
    /\ UNCHANGED <<files, mutexes, callers, fetches>>
    /\ UNCHANGED <<migVars, syncVars, fanVars, searchVars, decVars,
                 listVars, matchVars, rankVars, itemVars, cfgVars>>

ImgNext ==
    \/ \E c \in Callers : ImgCall(c)
    \/ \E c \in Callers : ImgLoadOrStore(c)
    \/ \E c \in Callers : ImgLock(c)
    \/ \E c \in Callers : ImgRecheck(c)
    \/ \E c \in Callers : ImgFetch(c)
    \/ \E c \in Callers : ImgCreate(c)
    \/ \E c \in Callers : ImgCopy(c)
    \/ \E k \in Keys : Sweep(k)

(***************************************************************************)
(*                       FAN-OUT OF ONE SYNC                               *)
(***************************************************************************)
\* handleSyncLibrary from the start of the loop over the fetched entities to the
\* response, with the units told apart only by their position.

\* ---- bounds ---------------------------------------------------------------
MaxUnits == 9     \* entities in the fetched collection

\* sem := make(chan struct{}, 8)
SemSlots == 8

NoUnits == [gate |-> 0, image |-> 0, lockP |-> 0, lockE |-> 0, holdP |-> 0, holdE |-> 0]

\* What a unit's call of downloadBestImage can end in: a poster reference, the empty
\* reference without error (no image, 404), the empty reference with an error, a panic.
ImageResults == {"poster", "miss", "error", "panic"}

\* A gate that lets every unit through.
AdmitsUnbounded(s) == TRUE

\* sem <- struct{}{} proceeds while the channel holds fewer than cap(sem) tokens.
Admits(s) == s < SemSlots

\* A wait that returns while units are still running.
WaitReturnsEarly(w) == TRUE

\* wg.Wait() returns when the counter is zero.
WaitReturns(w) == w = 0

\* A unit that gives up its entry when the image call returned an error.
AfterImageSkipOnError(result) ==
    CASE result = "poster" -> "lockP"
      [] result = "miss"   -> "lockE"
      [] OTHER             -> "exit"

\* Where a unit goes after `poster, _ := s.downloadBestImage(...)`: on to mu.Lock()
\* with the poster or with "" (the error is discarded), or out through recover().
AfterImage(result) ==
    CASE result = "poster" -> "lockP"
      [] result = "panic"  -> "exit"
      [] OTHER             -> "lockE"

\* for _, m := range movies { wg.Go(...) }: one more unit is started.
FanSpawn ==
    /\ handler.pc = "spawn"
    /\ handler.i < movies
    /\ handler' = [handler EXCEPT !.i = @ + 1]
    /\ wg' = wg + 1
    /\ units' = [units EXCEPT !.gate = @ + 1]
    /\ UNCHANGED <<movies, sem, mu, appended, faults>>
    /\ UNCHANGED <<migVars, syncVars, imgVars, searchVars, decVars,
                 listVars, matchVars, rankVars, itemVars, cfgVars>>

\* wg.Wait() after the loop.
FanWait ==
    /\ handler.pc = "spawn"
    /\ handler.i = movies
    /\ WaitReturns(wg)
    /\ handler' = [handler EXCEPT !.pc = "store"]
    /\ UNCHANGED <<movies, units, sem, wg, mu, appended, faults>>
    /\ UNCHANGED <<migVars, syncVars, imgVars, searchVars, decVars,
                 listVars, matchVars, rankVars, itemVars, cfgVars>>

\* ClearLibraryCache, AddToLibraryCache and the response.
FanRespond ==
    /\ handler.pc = "store"
    /\ handler' = [handler EXCEPT !.pc = "done"]
    /\ UNCHANGED <<movies, units, sem, wg, mu, appended, faults>>
    /\ UNCHANGED <<migVars, syncVars, imgVars, searchVars, decVars,
                 listVars, matchVars, rankVars, itemVars, cfgVars>>

\* sem <- struct{}{}
UnitAdmit ==
    /\ units.gate > 0
    /\ Admits(sem)
    /\ sem' = sem + 1
    /\ units' = [units EXCEPT !.gate = @ - 1, !.image = @ + 1]
    /\ UNCHANGED <<movies, handler, wg, mu, appended, faults>>
    /\ UNCHANGED <<migVars, syncVars, imgVars, searchVars, decVars,
                 listVars, matchVars, rankVars, itemVars, cfgVars>>

\* poster, _ := s.downloadBestImage(client, m, "movie").  A panic unwinds the unit:
\* recover(), <-sem and the Done of wg.Go run.
UnitImage ==
    /\ units.image > 0
    /\ \E result \in ImageResults :
         LET next == AfterImage(result)
         IN  /\ units' = IF next = "exit" THEN [units EXCEPT !.image = @ - 1]
                         ELSE [units EXCEPT !.image = @ - 1, ![next] = @ + 1]
             /\ sem' = IF next = "exit" THEN sem - 1 ELSE sem
             /\ wg' = IF next = "exit" THEN wg - 1 ELSE wg
             /\ faults' = [faults EXCEPT
                             !.panics = IF result = "panic" THEN @ + 1 ELSE @,
                             !.imgErrs = IF result = "error" THEN @ + 1 ELSE @]
    /\ UNCHANGED <<movies, handler, mu, appended>>
    /\ UNCHANGED <<migVars, syncVars, imgVars, searchVars, decVars,
                 listVars, matchVars, rankVars, itemVars, cfgVars>>

\* mu.Lock()
UnitLock ==
    /\ ~mu
    /\ \E cls \in {"P", "E"} :
         LET from == IF cls = "P" THEN "lockP" ELSE "lockE"
             to   == IF cls = "P" THEN "holdP" ELSE "holdE"
         IN  /\ units[from] > 0
             /\ units' = [units EXCEPT ![from] = @ - 1, ![to] = @ + 1]
    /\ mu' = TRUE
    /\ UNCHANGED <<movies, handler, sem, wg, appended, faults>>
    /\ UNCHANGED <<migVars, syncVars, imgVars, searchVars, decVars,
                 listVars, matchVars, rankVars, itemVars, cfgVars>>

\* itemsToCache = append(itemsToCache, ...); mu.Unlock(); then the deferred <-sem and
\* the Done of wg.Go.  A panic between Lock and Unlock unwinds through recover() and
\* <-sem, and mu.Unlock(), which is not deferred, is never reached.
UnitAppend ==
    /\ \E cls \in {"P", "E"} :
         LET at  == IF cls = "P" THEN "holdP" ELSE "holdE"
             fld == IF cls = "P" THEN "poster" ELSE "empty"
         IN  /\ units[at] > 0
             /\ units' = [units EXCEPT ![at] = @ - 1]
             /\ \/ /\ appended' = [appended EXCEPT ![fld] = @ + 1]
                   /\ mu' = FALSE
                   /\ faults' = faults
                \/ /\ appended' = appended
                   /\ mu' = mu
                   /\ faults' = [faults EXCEPT !.panics = @ + 1]
    /\ sem' = sem - 1
    /\ wg' = wg - 1
    /\ UNCHANGED <<movies, handler>>
    /\ UNCHANGED <<migVars, syncVars, imgVars, searchVars, decVars,
                 listVars, matchVars, rankVars, itemVars, cfgVars>>

FanNext ==
    \/ FanSpawn
    \/ FanWait
    \/ FanRespond
    \/ UnitAdmit
    \/ UnitImage
    \/ UnitLock
    \/ UnitAppend

(***************************************************************************)
(*                              SEARCH                                     *)
(***************************************************************************)
\* handleSearch over library_cache, next to the two writes a sync handler makes; a
\* behaviour is followed until the search has responded.

\* ---- bounds ---------------------------------------------------------------
MaxWrites == 2     \* sync handlers that write to library_cache while a search is followed

\* content_type values of a search request (a missing parameter, "", is served like
\* "movie").
SearchTypes == {"movie", "tv"}

\* cacheType of handleSearch.
CacheType(searchType) == IF searchType = "tv" THEN "show" ELSE "movie"

\* A query, by the remote ids whose title it is a substring of (like: title LIKE
\* %query%) and the ids FuzzySearch admits for it (prefix, substring or edit distance).
Queries == {q \in [like : SUBSET Ids, fuzzy : SUBSET Ids] : q.like \subseteq q.fuzzy}

IdleSearch ==
    [pc |-> "idle", listID |-> 0, searchType |-> "", query |-> [like |-> {}, fuzzy |-> {}],
     count |-> 0, source |-> "", remote |-> 0, ranked |-> FALSE,
     results |-> {}, matches |-> {}, status |-> ""]

\* A probe that never finds the cache populated.
PopulatedNever(count) == FALSE

\* if count > 0
Populated(count) == count > 0

\* SearchLibraryCache: the rows of the host and kind whose title matches, GROUP BY
\* kodi_id with MAX(list_id): one result per remote id.  (LIMIT 50 is above the number
\* of identifiers.)
SearchLibraryCache(c, l, mt, q) ==
    LET rows == {row \in HostRows(c, l, mt) : row.kodi_id \in q.like}
    IN  {[kodi_id |-> id,
          list_id |-> SetMax({row.list_id : row \in {x \in rows : x.kodi_id = id}})] :
            id \in {row.kodi_id : row \in rows}}

\* The entities of items that FuzzySearch admits for the query.
FuzzyAdmitted(items, q) == items \cap q.fuzzy

\* The rows a sync writes for a fetched collection with the remote ids in got.
FetchedItems(l, t, got) ==
    LET RECURSIVE Enum(_)
        Enum(S) == IF S = {} THEN <<>>
                   ELSE LET id == CHOOSE x \in S : \A y \in S : x <= y
                        IN  <<CachedItem(l, id, t, "")>> \o Enum(S \ {id})
    IN  Enum(got)

\* handleSearch: parameters and the probe GetLibraryCacheCount.
SearchProbe ==
    /\ search.pc = "idle"
    /\ \E l \in ListIDs, t \in SearchTypes, q \in Queries :
         LET count == GetLibraryCacheCount(cache, l, CacheType(t))
         IN  search' = [search EXCEPT !.pc = IF Populated(count) THEN "cached" ELSE "live",
                                      !.listID = l, !.searchType = t, !.query = q,
                                      !.count = count]
    /\ UNCHANGED <<cache, nsync, req>>
    /\ UNCHANGED <<migVars, imgVars, fanVars, decVars,
                 listVars, matchVars, rankVars, itemVars, cfgVars>>

\* count > 0: the result is what SearchLibraryCache returns.
SearchCached ==
    /\ search.pc = "cached"
    /\ search' = [search EXCEPT
                    !.pc = "done", !.status = "ok", !.source = "cache",
                    !.results = SearchLibraryCache(cache, search.listID,
                                                   CacheType(search.searchType), search.query)]
    /\ UNCHANGED <<cache, nsync, req>>
    /\ UNCHANGED <<migVars, imgVars, fanVars, decVars,
                 listVars, matchVars, rankVars, itemVars, cfgVars>>

\* count = 0: GetMovies for "movie" and "", GetTVShows for "tv", then FuzzySearch.
SearchLive ==
    /\ search.pc = "live"
    /\ \/ search' = [search EXCEPT !.pc = "done", !.status = "error", !.remote = @ + 1]
       \/ \E got \in SUBSET Ids :
             search' = [search EXCEPT
                          !.pc = "done", !.status = "ok", !.source = "live",
                          !.remote = @ + 1, !.ranked = TRUE,
                          !.matches = FuzzyAdmitted(got, search.query)]
    /\ UNCHANGED <<cache, nsync, req>>
    /\ UNCHANGED <<migVars, imgVars, fanVars, decVars,
                 listVars, matchVars, rankVars, itemVars, cfgVars>>

\* A sync handler after wg.Wait: ClearLibraryCache for its list and kind.  The rows it
\* deletes are kept in prev until its AddToLibraryCache.
SearchSyncClear(r) ==
    /\ search.pc # "done"
    /\ req[r].pc \in {"idle", "done"}
    /\ \A o \in Reqs : o < r => req[o].pc = "add"      \* the first free handler slot
    /\ nsync < MaxWrites
    /\ nsync' = nsync + 1
    /\ \E l \in ListIDs, t \in SyncTypes :
         /\ cache' = ClearLibraryCache(cache, l, DbType(t))
         /\ req' = [req EXCEPT ![r] = [IdleReq EXCEPT !.pc = "add", !.listID = l,
                                                      !.syncType = t,
                                                      !.prev = Slice(cache, l, DbType(t))]]
    /\ UNCHANGED search
    /\ UNCHANGED <<migVars, imgVars, fanVars, decVars,
                 listVars, matchVars, rankVars, itemVars, cfgVars>>

\* The same handler's AddToLibraryCache of the entities it fetched, and its return.
SearchSyncAdd(r) ==
    /\ search.pc # "done"
    /\ req[r].pc = "add"
    /\ \E got \in SUBSET Ids :
         cache' = AddToLibraryCache(cache,
                                    FetchedItems(req[r].listID, req[r].syncType, got))
    /\ req' = [req EXCEPT ![r] = [IdleReq EXCEPT !.pc = "done"]]
    /\ UNCHANGED <<search, nsync>>
    /\ UNCHANGED <<migVars, imgVars, fanVars, decVars,
                 listVars, matchVars, rankVars, itemVars, cfgVars>>

SearchNext ==
    \/ SearchProbe
    \/ SearchCached
    \/ SearchLive
    \/ \E r \in Reqs : SearchSyncClear(r)
    \/ \E r \in Reqs : SearchSyncAdd(r)

(***************************************************************************)
(*                         PAYLOAD DECODING                                *)
(***************************************************************************)
\* MediaItem.UnmarshalJSON on one entity object of a Kodi list response.

\* ---- bounds ---------------------------------------------------------------
MaxVal == 2     \* numeric fields of a payload take the values 0..MaxVal

Vals == 0..MaxVal

\* The fields of an entity object that UnmarshalJSON looks at; 0 and "" stand for a
\* missing field, video holds the durations of streamdetails.video.  The keys id and
\* episode_count of the struct's own fields do not occur in the entity objects of Kodi.
Payloads ==
    [movieid : Vals, episodeid : Vals, tvshowid : Vals, seasonid : Vals, episode : Vals,
     runtime : Vals, duration : Vals, video : SeqUpTo(Vals, 1),
     title : {"", "t"}, label : {"", "l"}]

NoPayload ==
    [movieid |-> 0, episodeid |-> 0, tvshowid |-> 0, seasonid |-> 0, episode |-> 0,
     runtime |-> 0, duration |-> 0, video |-> <<>>, title |-> "", label |-> ""]

\* The zero MediaItem; decoded tells that UnmarshalJSON has run (observation only).
ZeroMedia ==
    [ID |-> 0, Episode |-> 0, EpisodeCount |-> 0, Runtime |-> 0, Title |-> "",
     decoded |-> FALSE]

\* A decoder that tries the show ID before the episode ID.
UnmarshalJSONShowFirst(p) ==
    LET id == IF p.movieid # 0 THEN p.movieid
              ELSE IF p.tvshowid # 0 THEN p.tvshowid
              ELSE IF p.episodeid # 0 THEN p.episodeid
              ELSE IF p.seasonid # 0 THEN p.seasonid
              ELSE 0
        ep == IF p.movieid = 0 /\ p.tvshowid = 0 /\ p.episodeid # 0 THEN p.episode ELSE 0
        ec == IF p.movieid = 0 /\ (p.tvshowid # 0 \/ (p.episodeid = 0 /\ p.seasonid # 0))
              THEN p.episode ELSE 0
    IN  [ZeroMedia EXCEPT !.ID = id, !.Episode = ep, !.EpisodeCount = ec,
                          !.Runtime = p.runtime, !.Title = p.title, !.decoded = TRUE]

\* A runtime resolution that tries the duration field before the runtime field.
ResolveRuntimeDurationFirst(p) ==
    IF p.duration # 0 THEN p.duration
    ELSE IF p.runtime # 0 THEN p.runtime
    ELSE IF Len(p.video) > 0 THEN p.video[1]
    ELSE 0

\* The runtime fallbacks of UnmarshalJSON: m.Runtime as decoded, else m.Duration, else
\* the duration of the first video track of the stream details.
ResolveRuntime(p) ==
    IF p.runtime # 0 THEN p.runtime
    ELSE IF p.duration # 0 THEN p.duration
    ELSE IF Len(p.video) > 0 THEN p.video[1]
    ELSE 0

\* UnmarshalJSON: the if / else-if chain over the four ID fields, the runtime
\* fallbacks, the title fallback.  The "episode" field of the object is decoded into
\* aux.Episodes (the shallower field of that name), so m.Episode is set by the chain only.
UnmarshalJSON(p) ==
    LET id == IF p.movieid # 0 THEN p.movieid
              ELSE IF p.episodeid # 0 THEN p.episodeid
              ELSE IF p.tvshowid # 0 THEN p.tvshowid
              ELSE IF p.seasonid # 0 THEN p.seasonid
              ELSE 0
        ep == IF p.movieid = 0 /\ p.episodeid # 0 THEN p.episode ELSE 0
        ec == IF p.movieid = 0 /\ p.episodeid = 0 /\ (p.tvshowid # 0 \/ p.seasonid # 0)
              THEN p.episode ELSE 0
        ti == IF p.title = "" /\ p.label # "" THEN p.label ELSE p.title
    IN  [ZeroMedia EXCEPT !.ID = id, !.Episode = ep, !.EpisodeCount = ec,
                          !.Runtime = ResolveRuntime(p), !.Title = ti, !.decoded = TRUE]

\* json.Unmarshal of the entity into a fresh MediaItem.
Decode ==
    /\ ~media.decoded
    /\ media' = UnmarshalJSON(payload)
    /\ UNCHANGED payload
    /\ UNCHANGED <<migVars, syncVars, imgVars, fanVars, searchVars,
                 listVars, matchVars, rankVars, itemVars, cfgVars>>

DecodeNext ==
    \/ Decode

(***************************************************************************)
(*                             LIST CALL                                   *)
(***************************************************************************)
\* Client.GetMovies with Client.sendRequest, and what handleSyncLibrary stores of the
\* returned collection.  GetTVShows, GetSeasons and GetEpisodes have the same shape.

\* ---- bounds ---------------------------------------------------------------
MaxEntities == 2     \* elements of the movies array of one response

\* The entity objects of a response: movie ID and show ID vary, 0 is a missing field.
EntityObjects == {[NoPayload EXCEPT !.movieid = a, !.tvshowid = b] : a, b \in Vals}

\* An element of the movies array: an entity object, well typed, or with a field whose
\* JSON value has the wrong type (a string where the struct has an int).
Elements == [obj : EntityObjects, typed : BOOLEAN]

\* The error member of an envelope; NoRpcError is the absent or null member.
RpcErrors == [code : {-32601, -32602}, message : {"Method not found.", "Invalid params."}]
NoRpcError == [code |-> 0, message |-> ""]

\* What the remote side answers, by kind:
\*   transport : HTTPClient.Do fails (refused, timeout)
\*   body      : a body that is no JSON-RPC envelope (not JSON, or ill typed)
\*   error     : an envelope with a non-null error member
\*   shape     : an envelope whose result holds no array under "movies"
\*   movies    : an envelope whose result holds the array movies
Responses ==
    {[kind |-> k, error |-> NoRpcError, movies |-> <<>>] :
        k \in {"transport", "body", "shape"}}
    \cup {[kind |-> "error", error |-> e, movies |-> <<>>] : e \in RpcErrors}
    \cup {[kind |-> "movies", error |-> NoRpcError, movies |-> ms] :
            ms \in SeqUpTo(Elements, MaxEntities)}

NoResponse == [kind |-> "none", error |-> NoRpcError, movies |-> <<>>]

\* The nil error.
NoErr == [kind |-> "nil", code |-> 0, message |-> ""]

\* sendRequest: the error of HTTPClient.Do, the error of decoding the body into the
\* envelope, the "kodi rpc error" built from the envelope's error member, or nil.
sendRequest(resp) ==
    CASE resp.kind = "transport" -> [kind |-> "transport", code |-> 0, message |-> ""]
      [] resp.kind = "body"      -> [kind |-> "decode", code |-> 0, message |-> ""]
      [] resp.kind = "error"     -> [kind |-> "rpc", code |-> resp.error.code,
                                     message |-> resp.error.message]
      [] OTHER                   -> NoErr

\* json.Unmarshal of the movies array into result.Movies: the decoder extends the slice
\* by one element, decodes into it, and returns at the first element whose UnmarshalJSON
\* returns an error.  That element stays in the slice with the ID chain not run.
RECURSIVE UnmarshalMovies(_)
UnmarshalMovies(ms) ==
    IF ms = <<>> THEN <<>>
    ELSE IF ~Head(ms).typed THEN <<ZeroMedia>>
    ELSE <<UnmarshalJSON(Head(ms).obj)>> \o UnmarshalMovies(Tail(ms))

\* GetMovies: the error of sendRequest with no collection, else result.Movies as
\* json.Unmarshal left it and a nil error, whether or not json.Unmarshal failed.
GetMovies(resp) ==
    LET err == sendRequest(resp)
    IN  IF err # NoErr THEN [movies |-> <<>>, err |-> err]
        ELSE [movies |-> IF resp.kind = "movies" THEN UnmarshalMovies(resp.movies)
                         ELSE <<>>,
              err |-> NoErr]

IdleList == [pc |-> "idle", movies |-> <<>>, err |-> NoErr]

\* movies, err := client.GetMovies()
ListCall ==
    /\ listed.pc = "idle"
    /\ LET got == GetMovies(response)
       IN  listed' = [pc |-> "returned", movies |-> got.movies, err |-> got.err]
    /\ UNCHANGED response
    /\ UNCHANGED <<migVars, syncVars, imgVars, fanVars, searchVars, decVars,
                   matchVars, rankVars, itemVars, cfgVars>>

\* handleSyncLibrary on err != nil: http.Error 500 and return.
ListFail ==
    /\ listed.pc = "returned"
    /\ listed.err # NoErr
    /\ listed' = [listed EXCEPT !.pc = "failed"]
    /\ UNCHANGED response
    /\ UNCHANGED <<migVars, syncVars, imgVars, fanVars, searchVars, decVars,
                   matchVars, rankVars, itemVars, cfgVars>>

\* handleSyncLibrary on err == nil, for list 1, with no other request, no store failure
\* and no poster: one CachedItem per returned entity with KodiID m.ID, then the clear
\* and the insert.
ListStore ==
    /\ listed.pc = "returned"
    /\ listed.err = NoErr
    /\ LET itemsToCache == [j \in 1..Len(listed.movies) |->
                              CachedItem(1, listed.movies[j].ID, "movie", "")]
       IN  cache' = AddToLibraryCache(ClearLibraryCache(cache, 1, "movie"), itemsToCache)
    /\ listed' = [listed EXCEPT !.pc = "stored"]
    /\ UNCHANGED <<response, req, nsync>>
    /\ UNCHANGED <<migVars, imgVars, fanVars, searchVars, decVars,
                   matchVars, rankVars, itemVars, cfgVars>>

ListNext ==
    \/ ListCall
    \/ ListFail
    \/ ListStore

(***************************************************************************)
(*                           FUZZY MATCHING                                *)
(***************************************************************************)
\* The body of the loop of FuzzySearch for one entity, with levenshtein.

\* ---- bounds ---------------------------------------------------------------
MaxQuery == 4     \* runes of a query
MaxTitle == 2     \* runes of a title

\* The runes of queries and titles.
Runes == {"a", "A", "e'"}

min(a, b) == IF a < b THEN a ELSE b

\* An inner loop that charges a substitution also when the two runes are equal.
RECURSIVE FillRowAlwaysChange(_, _, _, _)
FillRowAlwaysChange(row, previousRow, r1, c) ==
    IF Len(row) = Len(previousRow) THEN row
    ELSE LET j      == Len(row)
             add    == previousRow[j + 1] + 1
             del    == row[j] + 1
             change == previousRow[j] + 1
         IN  FillRowAlwaysChange(Append(row, min(add, min(del, change))), previousRow, r1, c)

\* The inner loop of levenshtein: currentRow, of which row holds the entries
\* 0..Len(row)-1, filled from previousRow for the rune c of the longer string.
RECURSIVE FillRow(_, _, _, _)
FillRow(row, previousRow, r1, c) ==
    IF Len(row) = Len(previousRow) THEN row
    ELSE LET j      == Len(row)
             add    == previousRow[j + 1] + 1
             del    == row[j] + 1
             change == previousRow[j] + (IF r1[j] # c THEN 1 ELSE 0)
         IN  FillRow(Append(row, min(add, min(del, change))), previousRow, r1, c)

\* The outer loop of levenshtein from i on: one row per rune of the longer string.
RECURSIVE Rows(_, _, _, _)
Rows(currentRow, r1, r2, i) ==
    IF i > Len(r2) THEN currentRow
    ELSE Rows(FillRow(<<i>>, currentRow, r1, r2[i]), r1, r2, i + 1)

\* levenshtein: over runes, r1 the shorter string, two rows kept.
levenshtein(s1, s2) ==
    LET r1 == IF Len(s1) > Len(s2) THEN s2 ELSE s1
        r2 == IF Len(s1) > Len(s2) THEN s1 ELSE s2
        n  == Len(r1)
    IN  Rows([j \in 1..(n + 1) |-> j - 1], r1, r2, 1)[n + 1]

\* target: the lower-cased title, with a space and the lower-cased show title if set.
Target(item) ==
    IF item.ShowTitle # <<>>
    THEN ToLower(item.Title) \o <<" ">> \o ToLower(item.ShowTitle)
    ELSE ToLower(item.Title)

\* threshold := len(query) / 2, at least 3; len of a Go string counts bytes.
Threshold(query) ==
    LET threshold == ByteLen(query) \div 2
    IN  IF threshold < 3 THEN 3 ELSE threshold

\* A scoring that gives prefix matches the score of substring matches.
TierScoreFlat(tier, dist) ==
    CASE tier = "prefix"   -> 0
      [] tier = "contains" -> 0
      [] OTHER             -> dist

\* The score appended with the entity: -50, 0, or the distance.
TierScore(tier, dist) ==
    CASE tier = "prefix"   -> -50
      [] tier = "contains" -> 0
      [] OTHER             -> dist

\* The loop body for one entity and the lower-cased query: the tier that admits the
\* entity ("none" when it is not appended) and its score.
Match(query, item) ==
    LET target == Target(item)
        dist   == levenshtein(query, target)
        tier   == IF HasPrefix(target, query) THEN "prefix"
                  ELSE IF Contains(target, query) THEN "contains"
                  ELSE IF dist <= Threshold(query) THEN "fuzzy"
                  ELSE "none"
    IN  [tier |-> tier, score |-> TierScore(tier, dist)]

NoProbe == [query |-> <<>>, Title |-> <<>>, ShowTitle |-> <<>>]
NoScore == [done |-> FALSE, tier |-> "none", score |-> 0]

\* query = strings.ToLower(query) and one pass of the loop.
FuzzyMatch ==
    /\ ~scored.done
    /\ LET m == Match(ToLower(probe.query), probe)
       IN  scored' = [done |-> TRUE, tier |-> m.tier, score |-> m.score]
    /\ UNCHANGED probe
    /\ UNCHANGED <<migVars, syncVars, imgVars, fanVars, searchVars, decVars,
                   listVars, rankVars, itemVars, cfgVars>>

MatchNext ==
    \/ FuzzyMatch

(***************************************************************************)
(*                            FUZZY RANKING                                *)
(***************************************************************************)
\* FuzzySearch as a whole: the loop, sort.Slice, the copy and the cap.

\* ---- bounds ---------------------------------------------------------------
MaxRun == 13     \* entities in the longest run of entities with equal titles

\* if len(out) > 20 { return out[:20] }
MaxResults == 20

\* The queries, and the titles (with show title) of the entities searched.
RankQueries == {<<"a", "A">>, <<"b">>}
RankTitles ==
    {[Title |-> <<"A", "a", "b">>, ShowTitle |-> <<>>],
     [Title |-> <<"b", "a", "a">>, ShowTitle |-> <<>>],
     [Title |-> <<"b">>, ShowTitle |-> <<"A", "a">>],
     [Title |-> <<"a", "b">>, ShowTitle |-> <<>>],
     [Title |-> <<"b">>, ShowTitle |-> <<>>],
     [Title |-> <<"b", "b", "b", "b", "b", "b">>, ShowTitle |-> <<>>]}

\* A library is made of up to three runs, each of one or of MaxRun entities with the
\* same titles.
Runs == [of : RankTitles, n : {1, MaxRun}]

\* The entities of a sequence of runs; id is the position in the input.
RECURSIVE Expand(_, _)
Expand(runs, from) ==
    IF runs = <<>> THEN <<>>
    ELSE [k \in 1..Head(runs).n |->
            [id |-> from + k, Title |-> Head(runs).of.Title,
             ShowTitle |-> Head(runs).of.ShowTitle]]
         \o Expand(Tail(runs), from + Head(runs).n)

Libraries == {Expand(runs, 0) : runs \in SeqUpTo(Runs, 3)}

\* results after the loop: the admitted entities with their scores, in input order.
Results(its, query) ==
    LET scoredItems == [k \in 1..Len(its) |->
                          [item |-> its[k], score |-> Match(query, its[k]).score,
                           tier |-> Match(query, its[k]).tier]]
    IN  SelectSeq(scoredItems, LAMBDA r : r.tier # "none")

\* Insertion of r behind every element whose score is not greater.
RECURSIVE InsertByScore(_, _)
InsertByScore(sorted, r) ==
    IF sorted = <<>> THEN <<r>>
    ELSE IF r.score < Head(sorted).score THEN <<r>> \o sorted
    ELSE <<Head(sorted)>> \o InsertByScore(Tail(sorted), r)

\* The ascending order by score that keeps equal elements in their order.
RECURSIVE StableSort(_)
StableSort(results) ==
    IF results = <<>> THEN <<>>
    ELSE InsertByScore(StableSort(SubSeq(results, 1, Len(results) - 1)),
                       results[Len(results)])

\* The sequence with the elements at i and i + 1 exchanged.
Exchange(seq, i) ==
    [k \in 1..Len(seq) |-> IF k = i THEN seq[i + 1] ELSE IF k = i + 1 THEN seq[i] ELSE seq[k]]

\* sort.Slice(results, less by score): ascending by score.  Slices of up to 12 elements
\* are sorted by insertion, which keeps equal elements in order; for longer slices the
\* order of equal elements is not specified (sort.Slice is not stable), which is
\* modelled by letting one pair of neighbours with equal score change places.
SortSlice(results) ==
    LET stable == StableSort(results)
    IN  IF Len(results) <= 12 THEN {stable}
        ELSE {stable} \cup
             {Exchange(stable, i) : i \in {k \in 1..(Len(stable) - 1) :
                                             stable[k].score = stable[k + 1].score}}

\* A cap that keeps the last MaxResults elements.
CapTail(out) ==
    IF Len(out) > MaxResults THEN SubSeq(out, Len(out) - MaxResults + 1, Len(out)) ELSE out

\* if len(out) > 20 { return out[:20] }; return out
Cap(out) ==
    IF Len(out) > MaxResults THEN SubSeq(out, 1, MaxResults) ELSE out

NoLibrary == [query |-> <<>>, items |-> <<>>]
\* results and scores are observations: the slice results after the loop, and the
\* scores of the entities of out.
NoRanking == [done |-> FALSE, out |-> <<>>, scores |-> <<>>, results |-> <<>>]

\* FuzzySearch(items, query)
FuzzySearch ==
    /\ ~ranked.done
    /\ LET results == Results(library.items, ToLower(library.query))
       IN  \E sorted \in SortSlice(results) :
             ranked' = [done |-> TRUE,
                        out |-> Cap([k \in 1..Len(sorted) |-> sorted[k].item]),
                        scores |-> Cap([k \in 1..Len(sorted) |-> sorted[k].score]),
                        results |-> results]
    /\ UNCHANGED library
    /\ UNCHANGED <<migVars, syncVars, imgVars, fanVars, searchVars, decVars,
                   listVars, matchVars, itemVars, cfgVars>>

RankNext ==
    \/ FuzzySearch

(***************************************************************************)
(*                          WATCH-LIST ITEMS                               *)
(***************************************************************************)
\* DB.AddItem and DB.GetMaxSortOrder on table items, called by concurrent handlers.

\* ---- bounds ---------------------------------------------------------------
MaxAdders == 2     \* AddItem calls running at the same time
MaxAdds   == 3     \* AddItem calls in one behaviour
MaxKodi   == 1     \* remote identifiers 1..MaxKodi
MaxPos    == 2     \* explicit sort orders 1..MaxPos

Adders == 1..MaxAdders

\* UNIQUE(list_id, kodi_id, media_type, season): what identifies a row.
ItemKeys ==
    [list_id : {1, 2}, kodi_id : 1..MaxKodi, media_type : {"movie", "episode"},
     season : {0, 1}]

NoKey == [list_id |-> 0, kodi_id |-> 0, media_type |-> "", season |-> 0]

\* The row of an item at a sort order.
ItemRow(key, order) ==
    [list_id |-> key.list_id, kodi_id |-> key.kodi_id, media_type |-> key.media_type,
     season |-> key.season, sort_order |-> order]

KeyOf(row) ==
    [list_id |-> row.list_id, kodi_id |-> row.kodi_id, media_type |-> row.media_type,
     season |-> row.season]

\* UPDATE items SET sort_order = sort_order + 1 WHERE list_id = ?
ShiftDown(t, l) ==
    {IF row.list_id = l THEN [row EXCEPT !.sort_order = @ + 1] ELSE row : row \in t}

\* INSERT OR IGNORE INTO items: nothing happens when a row with the key exists.
InsertOrIgnore(t, row) ==
    IF \E old \in t : KeyOf(old) = KeyOf(row) THEN t ELSE t \cup {row}

\* GetMaxSortOrder: COALESCE(MAX(sort_order), -1) over the rows of the list.
GetMaxSortOrder(t, l) ==
    IF \A row \in t : row.list_id # l THEN -1
    ELSE SetMax({row.sort_order : row \in {x \in t : x.list_id = l}})

\* mode is the SortOrder the caller passed; SortOrder the one the INSERT uses.
IdleAdder ==
    [pc |-> "idle", key |-> NoKey, mode |-> 0, SortOrder |-> 0, calls |-> 0,
     inserted |-> FALSE, err |-> FALSE]

\* AddItem calls started so far.
RECURSIVE CallsOf(_, _)
CallsOf(ad, S) ==
    IF S = {} THEN 0
    ELSE LET a == CHOOSE x \in S : TRUE IN ad[a].calls + CallsOf(ad, S \ {a})

MayCall(a) ==
    /\ adders[a].pc \in {"idle", "done"}
    /\ CallsOf(adders, Adders) < MaxAdds

\* What a call starts from: the call counter is kept, the previous outcome is not.
Started(a, key, mode) ==
    [IdleAdder EXCEPT !.key = key, !.mode = mode, !.calls = adders[a].calls + 1]

\* AddItem with SortOrder -1: shift and INSERT OR IGNORE in one transaction, which
\* either commits both or, on a failure of the store, rolls both back.
AddTop(a) ==
    /\ MayCall(a)
    /\ \E key \in ItemKeys, ok \in BOOLEAN :
         LET shifted == ShiftDown(itemRows, key.list_id)
             row     == ItemRow(key, 0)
         IN  IF ok
             THEN /\ itemRows' = InsertOrIgnore(shifted, row)
                  /\ adders' = [adders EXCEPT ![a] =
                                  [Started(a, key, -1) EXCEPT
                                     !.pc = "done", !.SortOrder = 0,
                                     !.inserted = (row \in InsertOrIgnore(shifted, row)
                                                   /\ row \notin shifted)]]
             ELSE /\ itemRows' = itemRows
                  /\ adders' = [adders EXCEPT ![a] =
                                  [Started(a, key, -1) EXCEPT !.pc = "done", !.err = TRUE]]
    /\ UNCHANGED <<migVars, syncVars, imgVars, fanVars, searchVars, decVars,
                   listVars, matchVars, rankVars, cfgVars>>

\* AddItem with SortOrder 0, first statement: maxOrder from GetMaxSortOrder.
AddBottom(a) ==
    /\ MayCall(a)
    /\ \E key \in ItemKeys :
         adders' = [adders EXCEPT ![a] =
                      [Started(a, key, 0) EXCEPT
                         !.pc = "insert",
                         !.SortOrder = GetMaxSortOrder(itemRows, key.list_id) + 1]]
    /\ UNCHANGED itemRows
    /\ UNCHANGED <<migVars, syncVars, imgVars, fanVars, searchVars, decVars,
                   listVars, matchVars, rankVars, cfgVars>>

\* AddItem with a SortOrder above 0: the position is used as given.
AddExplicit(a) ==
    /\ MayCall(a)
    /\ \E key \in ItemKeys, pos \in 1..MaxPos :
         adders' = [adders EXCEPT ![a] =
                      [Started(a, key, pos) EXCEPT !.pc = "insert", !.SortOrder = pos]]
    /\ UNCHANGED itemRows
    /\ UNCHANGED <<migVars, syncVars, imgVars, fanVars, searchVars, decVars,
                   listVars, matchVars, rankVars, cfgVars>>

\* The final INSERT OR IGNORE of AddItem (autocommit) and the return.
AddInsert(a) ==
    /\ adders[a].pc = "insert"
    /\ LET row == ItemRow(adders[a].key, adders[a].SortOrder)
       IN  /\ itemRows' = InsertOrIgnore(itemRows, row)
           /\ adders' = [adders EXCEPT ![a].pc = "done",
                                       ![a].inserted = (row \in InsertOrIgnore(itemRows, row)
                                                        /\ row \notin itemRows)]
    /\ UNCHANGED <<migVars, syncVars, imgVars, fanVars, searchVars, decVars,
                   listVars, matchVars, rankVars, cfgVars>>

ItemNext ==
    \/ \E a \in Adders : AddTop(a)
    \/ \E a \in Adders : AddBottom(a)
    \/ \E a \in Adders : AddExplicit(a)
    \/ \E a \in Adders : AddInsert(a)

(***************************************************************************)
(*                          CONFIGURED LISTS                               *)
(***************************************************************************)
\* DB.SyncLists, called by main at every startup with the lists of the config file.

\* ---- bounds ---------------------------------------------------------------
MaxLists == 2     \* lists in one config file
MaxBoots == 3     \* startups in one behaviour

\* kodi_host and username of a list (password is read and written next to username
\* in every statement).
Connections == {[kodi_host |-> "hostA", username |-> ""],
                [kodi_host |-> "hostB", username |-> "u"]}

\* A list of the config file; content_type "" is a missing field.
ListEntries ==
    {[group_name |-> "den", name |-> n, content_type |-> ct,
      kodi_host |-> c.kodi_host, username |-> c.username] :
        n \in {"tv", "kids"}, ct \in {"", "movie"}, c \in Connections}

\* fullConfig.Lists
Configs == SeqUpTo(ListEntries, MaxLists)

\* Table lists before the first SyncLists.
NoLists == [rows |-> {}, seq |-> 0]

NoSyncLists == [boots |-> 0, config |-> <<>>, err |-> FALSE, again |-> FALSE, updated |-> {}]

\* Default content_type if missing in config.
DefaultContentType(l) ==
    IF l.content_type = "" THEN (IF l.name = "tv" THEN "tv" ELSE "movie")
    ELSE l.content_type

\* SELECT id FROM lists WHERE group_name = ? AND name = ?
FindList(t, l) ==
    {row.id : row \in {x \in t.rows : x.group_name = l.group_name /\ x.name = l.name}}

\* INSERT INTO lists: the row gets the next id of the AUTOINCREMENT sequence.
InsertList(t, l) ==
    [rows |-> t.rows \cup {[id |-> t.seq + 1, group_name |-> l.group_name, name |-> l.name,
                             content_type |-> DefaultContentType(l),
                             kodi_host |-> l.kodi_host, username |-> l.username]},
     seq  |-> t.seq + 1]

\* UPDATE lists SET kodi_host=?, username=?, password=?, content_type=? WHERE id=?
UpdateList(t, id, l) ==
    [t EXCEPT !.rows = {IF row.id = id
                        THEN [row EXCEPT !.kodi_host = l.kodi_host,
                                         !.username = l.username,
                                         !.content_type = DefaultContentType(l)]
                        ELSE row : row \in t.rows}]

\* An upsert that replaces the row found, as INSERT OR REPLACE does: the list gets a
\* new id.
UpsertListReplace(t, l) ==
    InsertList([t EXCEPT !.rows = {row \in t.rows : row.id \notin FindList(t, l)}], l)

\* One pass of the loop of SyncLists: the row found by (group_name, name) is updated
\* (QueryRow takes the first row, the one with the lowest id), else a row is inserted.
UpsertList(t, l) ==
    IF FindList(t, l) # {}
    THEN UpdateList(t, CHOOSE id \in FindList(t, l) : \A o \in FindList(t, l) : id <= o, l)
    ELSE InsertList(t, l)

\* The loop of SyncLists over the lists of the config, in order.
RECURSIVE ApplyLists(_, _)
ApplyLists(t, cfg) ==
    IF cfg = <<>> THEN t ELSE ApplyLists(UpsertList(t, Head(cfg)), Tail(cfg))

\* The ids the UPDATE statement of the loop is run for.
RECURSIVE UpdatedBy(_, _)
UpdatedBy(t, cfg) ==
    IF cfg = <<>> THEN {}
    ELSE FindList(t, Head(cfg)) \cup UpdatedBy(UpsertList(t, Head(cfg)), Tail(cfg))

\* SyncLists at a startup: one transaction that commits the whole loop, or, when a
\* statement or the commit fails, is rolled back and returns the error.
SyncLists ==
    /\ listSync.boots < MaxBoots
    /\ \E cfg \in Configs, ok \in BOOLEAN :
         /\ listRows' = IF ok THEN ApplyLists(listRows, cfg) ELSE listRows
         /\ listSync' = [boots   |-> listSync.boots + 1,
                         config  |-> cfg,
                         err     |-> ~ok,
                         again   |-> (listSync.boots > 0 /\ ~listSync.err
                                      /\ cfg = listSync.config),
                         updated |-> IF ok THEN UpdatedBy(listRows, cfg) ELSE {}]
    /\ UNCHANGED <<migVars, syncVars, imgVars, fanVars, searchVars, decVars,
                   listVars, matchVars, rankVars, itemVars>>

CfgNext == SyncLists

(***************************************************************************)
(*                          SPECIFICATIONS                                 *)
(***************************************************************************)

\* The store of the migrator once migrate() has returned on a new data source, as far
\* as the other machines are concerned.
RestDB == [FreshDB EXCEPT !.vtable = TRUE]

\* Before the first startup: the store is new or was left by an earlier release; no
\* request is being served.
MigInit ==
    /\ db \in {FreshDB} \cup LegacyV1DBs \cup LegacyV2DBs
    /\ mpc = "boot"
    /\ version = 0
    /\ mi = 0
    /\ hist = HistInit(db)
    /\ cache = {}
    /\ req = [r \in Reqs |-> IdleReq]
    /\ nsync = 0
    /\ files = [k \in Keys |-> "absent"]
    /\ flightMap = [k \in Keys |-> 0]
    /\ mutexes = [x \in Callers |-> 0]
    /\ callers = [c \in Callers |-> IdleCaller]
    /\ fetches = [k \in Keys |-> [n |-> 0, failed |-> FALSE]]
    /\ movies = 0
    /\ handler = [pc |-> "done", i |-> 0]
    /\ units = NoUnits
    /\ sem = 0
    /\ wg = 0
    /\ mu = FALSE
    /\ appended = [poster |-> 0, empty |-> 0]
    /\ faults = [panics |-> 0, imgErrs |-> 0]
    /\ search = IdleSearch
    /\ payload = NoPayload
    /\ media = ZeroMedia
    /\ response = NoResponse
    /\ listed = IdleList
    /\ probe = NoProbe
    /\ scored = NoScore
    /\ library = NoLibrary
    /\ ranked = NoRanking
    /\ itemRows = {}
    /\ adders = [a \in Adders |-> IdleAdder]
    /\ listRows = NoLists
    /\ listSync = NoSyncLists

\* The server after startup: library_cache is empty, no sync request is in flight.
SyncInit ==
    /\ db = RestDB
    /\ mpc = "ok"
    /\ version = 0
    /\ mi = 0
    /\ hist = HistInit(RestDB)
    /\ cache = {}
    /\ req = [r \in Reqs |-> IdleReq]
    /\ nsync = 0
    /\ files = [k \in Keys |-> "absent"]
    /\ flightMap = [k \in Keys |-> 0]
    /\ mutexes = [x \in Callers |-> 0]
    /\ callers = [c \in Callers |-> IdleCaller]
    /\ fetches = [k \in Keys |-> [n |-> 0, failed |-> FALSE]]
    /\ movies = 0
    /\ handler = [pc |-> "done", i |-> 0]
    /\ units = NoUnits
    /\ sem = 0
    /\ wg = 0
    /\ mu = FALSE
    /\ appended = [poster |-> 0, empty |-> 0]
    /\ faults = [panics |-> 0, imgErrs |-> 0]
    /\ search = IdleSearch
    /\ payload = NoPayload
    /\ media = ZeroMedia
    /\ response = NoResponse
    /\ listed = IdleList
    /\ probe = NoProbe
    /\ scored = NoScore
    /\ library = NoLibrary
    /\ ranked = NoRanking
    /\ itemRows = {}
    /\ adders = [a \in Adders |-> IdleAdder]
    /\ listRows = NoLists
    /\ listSync = NoSyncLists

\* The server after startup: data/posters is empty, flightMap has no entry.
ImgInit ==
    /\ db = RestDB
    /\ mpc = "ok"
    /\ version = 0
    /\ mi = 0
    /\ hist = HistInit(RestDB)
    /\ cache = {}
    /\ req = [r \in Reqs |-> IdleReq]
    /\ nsync = 0
    /\ files = [k \in Keys |-> "absent"]
    /\ flightMap = [k \in Keys |-> 0]
    /\ mutexes = [x \in Callers |-> 0]
    /\ callers = [c \in Callers |-> IdleCaller]
    /\ fetches = [k \in Keys |-> [n |-> 0, failed |-> FALSE]]
    /\ movies = 0
    /\ handler = [pc |-> "done", i |-> 0]
    /\ units = NoUnits
    /\ sem = 0
    /\ wg = 0
    /\ mu = FALSE
    /\ appended = [poster |-> 0, empty |-> 0]
    /\ faults = [panics |-> 0, imgErrs |-> 0]
    /\ search = IdleSearch
    /\ payload = NoPayload
    /\ media = ZeroMedia
    /\ response = NoResponse
    /\ listed = IdleList
    /\ probe = NoProbe
    /\ scored = NoScore
    /\ library = NoLibrary
    /\ ranked = NoRanking
    /\ itemRows = {}
    /\ adders = [a \in Adders |-> IdleAdder]
    /\ listRows = NoLists
    /\ listSync = NoSyncLists

SpecMigrate == MigInit /\ [][MigNext]_vars

SpecSync == SyncInit /\ [][SyncNext]_vars

SpecImage == ImgInit /\ [][ImgNext]_vars

\* handleSyncLibrary has fetched a collection and is about to start the units.
FanInit ==
    /\ db = RestDB
    /\ mpc = "ok"
    /\ version = 0
    /\ mi = 0
    /\ hist = HistInit(RestDB)
    /\ cache = {}
    /\ req = [r \in Reqs |-> IdleReq]
    /\ nsync = 0
    /\ files = [k \in Keys |-> "absent"]
    /\ flightMap = [k \in Keys |-> 0]
    /\ mutexes = [x \in Callers |-> 0]
    /\ callers = [c \in Callers |-> IdleCaller]
    /\ fetches = [k \in Keys |-> [n |-> 0, failed |-> FALSE]]
    /\ movies \in 0..MaxUnits
    /\ handler = [pc |-> "spawn", i |-> 0]
    /\ units = NoUnits
    /\ sem = 0
    /\ wg = 0
    /\ mu = FALSE
    /\ appended = [poster |-> 0, empty |-> 0]
    /\ faults = [panics |-> 0, imgErrs |-> 0]
    /\ search = IdleSearch
    /\ payload = NoPayload
    /\ media = ZeroMedia
    /\ response = NoResponse
    /\ listed = IdleList
    /\ probe = NoProbe
    /\ scored = NoScore
    /\ library = NoLibrary
    /\ ranked = NoRanking
    /\ itemRows = {}
    /\ adders = [a \in Adders |-> IdleAdder]
    /\ listRows = NoLists
    /\ listSync = NoSyncLists

SpecFan == FanInit /\ [][FanNext]_vars

\* The server after startup: library_cache is empty, no search is being served.
SearchInit ==
    /\ db = RestDB
    /\ mpc = "ok"
    /\ version = 0
    /\ mi = 0
    /\ hist = HistInit(RestDB)
    /\ cache = {}
    /\ req = [r \in Reqs |-> IdleReq]
    /\ nsync = 0
    /\ files = [k \in Keys |-> "absent"]
    /\ flightMap = [k \in Keys |-> 0]
    /\ mutexes = [x \in Callers |-> 0]
    /\ callers = [c \in Callers |-> IdleCaller]
    /\ fetches = [k \in Keys |-> [n |-> 0, failed |-> FALSE]]
    /\ movies = 0
    /\ handler = [pc |-> "done", i |-> 0]
    /\ units = NoUnits
    /\ sem = 0
    /\ wg = 0
    /\ mu = FALSE
    /\ appended = [poster |-> 0, empty |-> 0]
    /\ faults = [panics |-> 0, imgErrs |-> 0]
    /\ search = IdleSearch
    /\ payload = NoPayload
    /\ media = ZeroMedia
    /\ response = NoResponse
    /\ listed = IdleList
    /\ probe = NoProbe
    /\ scored = NoScore
    /\ library = NoLibrary
    /\ ranked = NoRanking
    /\ itemRows = {}
    /\ adders = [a \in Adders |-> IdleAdder]
    /\ listRows = NoLists
    /\ listSync = NoSyncLists

SpecSearch == SearchInit /\ [][SearchNext]_vars

\* An entity object of a list response is about to be decoded.
DecodeInit ==
    /\ db = RestDB
    /\ mpc = "ok"
    /\ version = 0
    /\ mi = 0
    /\ hist = HistInit(RestDB)
    /\ cache = {}
    /\ req = [r \in Reqs |-> IdleReq]
    /\ nsync = 0
    /\ files = [k \in Keys |-> "absent"]
    /\ flightMap = [k \in Keys |-> 0]
    /\ mutexes = [x \in Callers |-> 0]
    /\ callers = [c \in Callers |-> IdleCaller]
    /\ fetches = [k \in Keys |-> [n |-> 0, failed |-> FALSE]]
    /\ movies = 0
    /\ handler = [pc |-> "done", i |-> 0]
    /\ units = NoUnits
    /\ sem = 0
    /\ wg = 0
    /\ mu = FALSE
    /\ appended = [poster |-> 0, empty |-> 0]
    /\ faults = [panics |-> 0, imgErrs |-> 0]
    /\ search = IdleSearch
    /\ payload \in Payloads
    /\ media = ZeroMedia
    /\ response = NoResponse
    /\ listed = IdleList
    /\ probe = NoProbe
    /\ scored = NoScore
    /\ library = NoLibrary
    /\ ranked = NoRanking
    /\ itemRows = {}
    /\ adders = [a \in Adders |-> IdleAdder]
    /\ listRows = NoLists
    /\ listSync = NoSyncLists

SpecDecode == DecodeInit /\ [][DecodeNext]_vars

\* A list request is about to be answered by the remote side.
ListInit ==
    /\ db = RestDB
    /\ mpc = "ok"
    /\ version = 0
    /\ mi = 0
    /\ hist = HistInit(RestDB)
    /\ cache = {}
    /\ req = [r \in Reqs |-> IdleReq]
    /\ nsync = 0
    /\ files = [k \in Keys |-> "absent"]
    /\ flightMap = [k \in Keys |-> 0]
    /\ mutexes = [x \in Callers |-> 0]
    /\ callers = [c \in Callers |-> IdleCaller]
    /\ fetches = [k \in Keys |-> [n |-> 0, failed |-> FALSE]]
    /\ movies = 0
    /\ handler = [pc |-> "done", i |-> 0]
    /\ units = NoUnits
    /\ sem = 0
    /\ wg = 0
    /\ mu = FALSE
    /\ appended = [poster |-> 0, empty |-> 0]
    /\ faults = [panics |-> 0, imgErrs |-> 0]
    /\ search = IdleSearch
    /\ payload = NoPayload
    /\ media = ZeroMedia
    /\ response \in Responses
    /\ listed = IdleList
    /\ probe = NoProbe
    /\ scored = NoScore
    /\ library = NoLibrary
    /\ ranked = NoRanking
    /\ itemRows = {}
    /\ adders = [a \in Adders |-> IdleAdder]
    /\ listRows = NoLists
    /\ listSync = NoSyncLists

SpecList == ListInit /\ [][ListNext]_vars

\* FuzzySearch is about to look at one entity.
MatchInit ==
    /\ db = RestDB
    /\ mpc = "ok"
    /\ version = 0
    /\ mi = 0
    /\ hist = HistInit(RestDB)
    /\ cache = {}
    /\ req = [r \in Reqs |-> IdleReq]
    /\ nsync = 0
    /\ files = [k \in Keys |-> "absent"]
    /\ flightMap = [k \in Keys |-> 0]
    /\ mutexes = [x \in Callers |-> 0]
    /\ callers = [c \in Callers |-> IdleCaller]
    /\ fetches = [k \in Keys |-> [n |-> 0, failed |-> FALSE]]
    /\ movies = 0
    /\ handler = [pc |-> "done", i |-> 0]
    /\ units = NoUnits
    /\ sem = 0
    /\ wg = 0
    /\ mu = FALSE
    /\ appended = [poster |-> 0, empty |-> 0]
    /\ faults = [panics |-> 0, imgErrs |-> 0]
    /\ search = IdleSearch
    /\ payload = NoPayload
    /\ media = ZeroMedia
    /\ response = NoResponse
    /\ listed = IdleList
    /\ probe \in [query : SeqUpTo(Runes, MaxQuery), Title : SeqUpTo(Runes, MaxTitle),
                 ShowTitle : SeqUpTo(Runes, 1)]
    /\ scored = NoScore
    /\ library = NoLibrary
    /\ ranked = NoRanking
    /\ itemRows = {}
    /\ adders = [a \in Adders |-> IdleAdder]
    /\ listRows = NoLists
    /\ listSync = NoSyncLists

SpecMatch == MatchInit /\ [][MatchNext]_vars

\* FuzzySearch is about to be called on a library.
RankInit ==
    /\ db = RestDB
    /\ mpc = "ok"
    /\ version = 0
    /\ mi = 0
    /\ hist = HistInit(RestDB)
    /\ cache = {}
    /\ req = [r \in Reqs |-> IdleReq]
    /\ nsync = 0
    /\ files = [k \in Keys |-> "absent"]
    /\ flightMap = [k \in Keys |-> 0]
    /\ mutexes = [x \in Callers |-> 0]
    /\ callers = [c \in Callers |-> IdleCaller]
    /\ fetches = [k \in Keys |-> [n |-> 0, failed |-> FALSE]]
    /\ movies = 0
    /\ handler = [pc |-> "done", i |-> 0]
    /\ units = NoUnits
    /\ sem = 0
    /\ wg = 0
    /\ mu = FALSE
    /\ appended = [poster |-> 0, empty |-> 0]
    /\ faults = [panics |-> 0, imgErrs |-> 0]
    /\ search = IdleSearch
    /\ payload = NoPayload
    /\ media = ZeroMedia
    /\ response = NoResponse
    /\ listed = IdleList
    /\ probe = NoProbe
    /\ scored = NoScore
    /\ library \in [query : RankQueries, items : Libraries]
    /\ ranked = NoRanking
    /\ itemRows = {}
    /\ adders = [a \in Adders |-> IdleAdder]
    /\ listRows = NoLists
    /\ listSync = NoSyncLists

SpecRank == RankInit /\ [][RankNext]_vars

\* The items table is empty and no AddItem call is running.
ItemInit ==
    /\ db = RestDB
    /\ mpc = "ok"
    /\ version = 0
    /\ mi = 0
    /\ hist = HistInit(RestDB)
    /\ cache = {}
    /\ req = [r \in Reqs |-> IdleReq]
    /\ nsync = 0
    /\ files = [k \in Keys |-> "absent"]
    /\ flightMap = [k \in Keys |-> 0]
    /\ mutexes = [x \in Callers |-> 0]
    /\ callers = [c \in Callers |-> IdleCaller]
    /\ fetches = [k \in Keys |-> [n |-> 0, failed |-> FALSE]]
    /\ movies = 0
    /\ handler = [pc |-> "done", i |-> 0]
    /\ units = NoUnits
    /\ sem = 0
    /\ wg = 0
    /\ mu = FALSE
    /\ appended = [poster |-> 0, empty |-> 0]
    /\ faults = [panics |-> 0, imgErrs |-> 0]
    /\ search = IdleSearch
    /\ payload = NoPayload
    /\ media = ZeroMedia
    /\ response = NoResponse
    /\ listed = IdleList
    /\ probe = NoProbe
    /\ scored = NoScore
    /\ library = NoLibrary
    /\ ranked = NoRanking
    /\ itemRows = {}
    /\ adders = [a \in Adders |-> IdleAdder]
    /\ listRows = NoLists
    /\ listSync = NoSyncLists

SpecItems == ItemInit /\ [][ItemNext]_vars

\* No list is configured before the first startup.
CfgInit ==
    /\ db = RestDB
    /\ mpc = "ok"
    /\ version = 0
    /\ mi = 0
    /\ hist = HistInit(RestDB)
    /\ cache = {}
    /\ req = [r \in Reqs |-> IdleReq]
    /\ nsync = 0
    /\ files = [k \in Keys |-> "absent"]
    /\ flightMap = [k \in Keys |-> 0]
    /\ mutexes = [x \in Callers |-> 0]
    /\ callers = [c \in Callers |-> IdleCaller]
    /\ fetches = [k \in Keys |-> [n |-> 0, failed |-> FALSE]]
    /\ movies = 0
    /\ handler = [pc |-> "done", i |-> 0]
    /\ units = NoUnits
    /\ sem = 0
    /\ wg = 0
    /\ mu = FALSE
    /\ appended = [poster |-> 0, empty |-> 0]
    /\ faults = [panics |-> 0, imgErrs |-> 0]
    /\ search = IdleSearch
    /\ payload = NoPayload
    /\ media = ZeroMedia
    /\ response = NoResponse
    /\ listed = IdleList
    /\ probe = NoProbe
    /\ scored = NoScore
    /\ library = NoLibrary
    /\ ranked = NoRanking
    /\ itemRows = {}
    /\ adders = [a \in Adders |-> IdleAdder]
    /\ listRows = NoLists
    /\ listSync = NoSyncLists

SpecConfig == CfgInit /\ [][CfgNext]_vars

\* The Go scheduler runs every goroutine that can take a step, and every call of
\* downloadBestImage returns: a step that stays possible is eventually taken.
SpecFanLive == FanInit /\ [][FanNext]_vars /\ WF_vars(FanNext)

(***************************************************************************)
(*                     PROPERTIES: SCHEMA MIGRATOR                         *)
(***************************************************************************)

\* The current run of migrate() has returned (nil, or the error that makes main exit).
RunEnded == mpc \in {"ok", "failed"} /\ hist.startups > 0

\* The schema every committed version promises.
SchemaAt(d, v) ==
    /\ (v >= 1 => AllTables \subseteq d.tables)
    /\ (v >= 2 => d.cols = {"name", "content_type"})

\* C1: without any store fault, the first startup on a legacy v1 store (lists.type, no
\* lists.name) infers version 1 and applies exactly migration 2, the first startup on an
\* empty store applies migrations 1..N, and both return nil with lists(name,
\* content_type) and recorded version N.
C1_MigrateReachesCurrentSchema ==
    (RunEnded /\ hist.startups = 1 /\ ~hist.faulted
        /\ (hist.db0 = FreshDB \/ hist.db0 \in LegacyV1DBs))
    => /\ mpc = "ok"
       /\ db.cols = {"name", "content_type"}
       /\ CurrentVersion(db) = NumMigrations
       /\ hist.applied = (IF hist.db0 = FreshDB THEN <<1, 2>> ELSE <<2>>)
       /\ (hist.db0 \in LegacyV1DBs => version = 1)

\* C2: after migrate() returns on a v1.0.0 store (no store fault), every lists row that
\* existed is still there, with its old type value under name and content_type 'tv' when
\* that name is 'tv' and 'movie' otherwise.
C2_LegacyDataPreserved ==
    (RunEnded /\ ~hist.faulted /\ hist.db0 \in LegacyV1DBs)
    => /\ db.cols = {"name", "content_type"}
       /\ Len(db.rows) = Len(hist.db0.rows)
       /\ \A k \in DOMAIN db.rows :
            /\ db.rows[k]["name"] = hist.db0.rows[k]["type"]
            /\ db.rows[k]["content_type"] =
                  (IF db.rows[k]["name"] = "tv" THEN "tv" ELSE "movie")

\* C3: every migration step is atomic.  A step either fails, and then the store is
\* exactly as before the step and the run is over (no later step, the process exits), or
\* commits its schema changes together with its version number.
C3_StepAtomic ==
    [][ /\ (mpc = "apply" /\ mi < NumMigrations)
            => \/ (mpc' = "failed" /\ db' = db /\ mi' = mi)
               \/ (/\ mpc' = "apply" /\ mi' = mi + 1
                   /\ CurrentVersion(db') = mi + 1
                   /\ SchemaAt(db', mi + 1))
        /\ (mpc = "failed" => (db' = db /\ hist'.startups = hist.startups + 1))
      ]_vars

\* C3 witness: migration 1 on an empty store failed after its first statement had
\* created a table inside the transaction, and the store holds no table.
C3_Witness ==
    /\ mpc = "failed"
    /\ hist.attempted = <<1>>
    /\ hist.lastFault >= 2
    /\ db.tables = {}
    /\ db.versions = {}

\* C4: with recorded version zero, the detection leaves version 0 when there is no
\* lists table (and the run goes through the chain from migration 1), infers 1 for
\* lists(type) without name (the run starts at migration 2), and infers 2 when
\* lists has name (no migration runs and migrate returns nil).
C4_LegacyDetection ==
    (hist.ranDetect /\ mpc # "detect")
    => LET d == hist.dbAtOpen
       IN  /\ ("lists" \notin d.tables
                => /\ version = 0
                   /\ (hist.attempted # <<>> => hist.attempted[1] = 1)
                   /\ ((RunEnded /\ hist.lastFault = 0) => hist.attempted = <<1, 2>>))
           /\ (("lists" \in d.tables /\ "name" \notin d.cols /\ "type" \in d.cols)
                => /\ version = 1
                   /\ (hist.attempted # <<>> => hist.attempted = <<2>>))
           /\ (("lists" \in d.tables /\ "name" \in d.cols)
                => /\ version = 2
                   /\ hist.attempted = <<>>
                   /\ mpc \in {"apply", "ok"})

\* C4 witness: a run that found lists(type) inferred version 1 and began migration 2.
C4_Witness ==
    /\ hist.ranDetect
    /\ hist.dbAtOpen \in LegacyV1DBs
    /\ version = 1
    /\ hist.attempted = <<2>>

Completes(r) == req[r].pc = "add" /\ req'[r].pc = "done"

\* C6: a sync never partially commits.  When a sync that ran alone ends, after a
\* success or after a store failure in the clear or the insert, its slice holds
\* entirely the previous generation or entirely the new one.
C6_SyncAllOrNothing ==
    [][ \A r \in Reqs :
          (Completes(r) /\ req[r].alone)
          => Slice(cache', req[r].listID, DbType(req[r].syncType))
                \in {req[r].prev, RowsOf(req[r].itemsToCache)}
      ]_vars

\* C7: after a sync that ran alone, with no store failure, responds success, the rows
\* of its (host, kind) are exactly the entities fetched: one row per fetched id, none
\* else, also when other lists point at the same host.
C7_SyncLeavesExactlyFetched ==
    [][ \A r \in Reqs :
          (Completes(r) /\ req'[r].status = "success" /\ req[r].alone /\ req[r].clearOk)
          => LET got  == {req[r].fetched[k] : k \in DOMAIN req[r].fetched}
                 rows == HostRows(cache', req[r].listID, DbType(req[r].syncType))
             IN  /\ {row.kodi_id : row \in rows} = got
                 /\ Cardinality(rows) = Cardinality(got)
      ]_vars

\* C8: when the fetch of the collection fails the sync fails as a whole: the request
\* is over with a failure status, no unit ran, and it executed neither the clear nor
\* the insert.
C8_FetchFailureAborts ==
    \A r \in Reqs :
        req[r].fetchErr
        => /\ req[r].pc = "done"
           /\ req[r].status = "error"
           /\ req[r].unitsRun = 0
           /\ ~req[r].wrote

\* C8 witness: a sync whose fetch failed has ended while the cache holds rows of the
\* slice it was asked to refresh.
C8_Witness ==
    \E r \in Reqs :
        /\ req[r].fetchErr
        /\ req[r].pc = "done"
        /\ Slice(cache, req[r].listID, DbType(req[r].syncType)) # {}

\* C16: two overlapping syncs of the same (list, kind) serialize: once both have
\* responded success (no store failure), the slice is exactly the snapshot written by
\* one of the two, never a union or mixture.
C16_OverlapLeavesOneSnapshot ==
    \A r, o \in Reqs :
        (/\ r # o
         /\ req[r].pc = "done" /\ req[o].pc = "done"
         /\ req[r].status = "success" /\ req[o].status = "success"
         /\ ~req[r].alone /\ ~req[o].alone
         /\ req[r].clearOk /\ req[o].clearOk
         /\ req[r].listID = req[o].listID
         /\ req[r].syncType = req[o].syncType)
        => Slice(cache, req[r].listID, DbType(req[r].syncType)) \in {req[r].snap, req[o].snap}

\* The (list, kind) pairs of library_cache.
Pairs == ListIDs \X {"movie", "show"}

\* C17: syncs of different (list, kind) pairs are independent: in any interleaving,
\* a step changes the rows of a pair only if it is a step of a sync of that pair.
C17_OtherPairsUnchanged ==
    [][ \A pr \in Pairs :
          Slice(cache', pr[1], pr[2]) # Slice(cache, pr[1], pr[2])
          => \E r \in Reqs :
                /\ Active(req[r])
                /\ req'[r] # req[r]
                /\ req[r].listID = pr[1]
                /\ DbType(req[r].syncType) = pr[2]
      ]_vars

\* C17 witness: a sync has responded success and left rows in its slice while a sync
\* of another pair of the same host, which overlapped it, has cleared and is about to
\* insert.
C17_Witness ==
    \E r, o \in Reqs :
        /\ req[r].pc = "done" /\ req[r].status = "success" /\ ~req[r].alone
        /\ Slice(cache, req[r].listID, DbType(req[r].syncType)) # {}
        /\ Slice(cache, req[r].listID, DbType(req[r].syncType)) = req[r].snap
        /\ req[o].pc = "add"
        /\ req[o].itemsToCache # <<>>
        /\ KodiHost(req[o].listID) = KodiHost(req[r].listID)
        /\ <<req[o].listID, DbType(req[o].syncType)>> # <<req[r].listID, DbType(req[r].syncType)>>

(***************************************************************************)
(*                       PROPERTIES: IMAGE CACHE                           *)
(***************************************************************************)

\* Callers of key k inside the locked section.
Inside(k) == {c \in Callers : callers[c].key = k /\ callers[c].pc \in InSection}

\* C9: concurrent callers of one key cause exactly one network fetch and all get the
\* same local reference (stated for keys whose fetches were answered 200 and written).
C9_SingleFetch ==
    \A k \in Keys :
        ~fetches[k].failed
        => /\ fetches[k].n <= 1
           /\ \A c \in Callers :
                (callers[c].pc = "done" /\ callers[c].key = k)
                => callers[c].ref = PublicURL(k)

\* C10: whenever the sweep discards the lock entries, at most one caller at a time is
\* inside the re-check/fetch/write section of a key.
C10_SweepKeepsExclusion ==
    \A k \in Keys : Cardinality(Inside(k)) <= 1

\* C11: a 404 is a soft miss.  The call whose request met a 404 returns the empty
\* reference and no error, and creates no file; a call that met another non-success
\* status or a transport failure returns the empty reference and an error; either way
\* no file changes and no other call is affected.
C11_SoftMiss ==
    [][ \A c \in Callers :
          (callers[c].pc = "fetch" /\ callers'[c].pc = "done")
          => /\ files' = files
             /\ callers'[c].ref = NoRef
             /\ (callers'[c].outcome = "404" => ~callers'[c].err)
             /\ (callers'[c].outcome # "404" => callers'[c].err)
             /\ \A o \in Callers \ {c} : callers'[o] = callers[o]
      ]_vars

\* C11 witness: two calls for one key both met a 404 and returned the empty reference
\* without error, and the key has no local file.
C11_Witness ==
    \E c, o \in Callers :
        /\ c # o
        /\ callers[c].key = callers[o].key
        /\ \A x \in {c, o} :
              /\ callers[x].pc = "done"
              /\ callers[x].outcome = "404"
              /\ callers[x].ref = NoRef
              /\ ~callers[x].err
        /\ files[callers[c].key] = "absent"

(***************************************************************************)
(*                    PROPERTIES: FAN-OUT OF ONE SYNC                      *)
(***************************************************************************)

\* Units past the admission gate that have not released their slot.
InFlight == units.image + units.lockP + units.lockE + units.holdP + units.holdE

\* len(itemsToCache)
NumAppended == appended.poster + appended.empty

\* The handler is past wg.Wait().
PastBarrier == handler.pc \in {"store", "done"}

\* C12: at every moment at most 8 units are past the admission gate and not yet
\* released, and the channel holds one token per such unit.
C12_AtMostEightInFlight ==
    /\ InFlight <= SemSlots
    /\ sem = InFlight

\* C12 witness: a collection of more than 8 entities: 8 units are in flight while
\* another waits at the gate.
C12_Witness ==
    /\ InFlight = SemSlots
    /\ units.gate > 0

\* C13: the clear, the insert and the response happen only after every unit has
\* finished: past wg.Wait() every entity had its unit started, no unit is at any
\* position, and every unit either appended its entry or ended in a panic.
C13_BarrierBeforeStore ==
    PastBarrier
    => /\ handler.i = movies
       /\ units = NoUnits
       /\ wg = 0
       /\ NumAppended + faults.panics = movies

\* C13 witness: the handler responded for a collection larger than the gate.
C13_Witness ==
    /\ handler.pc = "done"
    /\ movies > SemSlots
    /\ NumAppended = movies

\* C14 as stated: a unit whose image fetch failed, like one that panicked, contributes
\* no entry, so past the barrier there are no more entries than units without an image
\* error, and no more than units without a panic.
C14_FailedUnitContributesNothing ==
    PastBarrier
    => /\ NumAppended <= movies - faults.imgErrs
       /\ NumAppended <= movies - faults.panics

\* C14 amended: a panic in a unit is caught and the unit contributes no entry; an image
\* fetch error is discarded and the unit still contributes its entry, with the empty
\* poster reference; past the barrier there is exactly one entry per unit that did not
\* panic.
C14_PanicSkipsErrorKeeps ==
    PastBarrier
    => /\ NumAppended = movies - faults.panics
       /\ (faults.panics = 0 => appended.empty >= faults.imgErrs)

\* C14 witness: every unit's image fetch returned an error, one of the units then
\* panicked, and all the others appended an entry with the empty reference.
C14_Witness ==
    /\ PastBarrier
    /\ movies >= 2
    /\ faults.imgErrs = movies
    /\ faults.panics = 1
    /\ appended.empty = movies - 1

\* C15: every started sync eventually passes the barrier and responds, whatever the
\* size of the collection and wherever a unit panics.
C15_BarrierReached == <>(handler.pc = "done")

(***************************************************************************)
(*                         PROPERTIES: SEARCH                              *)
(***************************************************************************)

\* C18: a search probes the cache of the list's host and kind first.  When the probe
\* found it populated the result comes from the cache and the remote device is never
\* called; the Protocol Client is called, once, only when the probe found the cache
\* empty, and what it returned passes through FuzzySearch.
C18_CacheFirst ==
    /\ (search.pc = "cached" => search.count > 0)
    /\ (search.pc = "live" => search.count = 0)
    /\ (search.count > 0 => search.remote = 0 /\ search.source # "live")
    /\ (search.pc = "done" /\ search.status = "ok"
            => \/ /\ search.source = "cache"
                  /\ search.count > 0
                  /\ search.remote = 0
               \/ /\ search.source = "live"
                  /\ search.count = 0
                  /\ search.remote = 1
                  /\ search.ranked
                  /\ search.results = {}
                  /\ search.matches \subseteq search.query.fuzzy)

\* C18 witness: a search answered from a populated cache without a remote call.
C18_Witness ==
    /\ search.pc = "done"
    /\ search.source = "cache"
    /\ search.remote = 0
    /\ search.results # {}

\* Lists other than l with the same host.
Siblings(l) == {a \in ListIDs \ {l} : KodiHost(a) = KodiHost(l)}

\* C19: the cache is shared by the lists of one host.  A search on list B that has no
\* rows of its own while a list A of the same host has rows of the kind is sent to the
\* cache; its result holds every matching remote id of A's rows, each id once, and no
\* remote call is made.
C19_SharedCache ==
    [][ LET B  == search'.listID
            mt == CacheType(search'.searchType)
        IN  /\ (/\ search.pc = "idle" /\ search'.pc # "idle"
                /\ Slice(cache, B, mt) = {}
                /\ \E A \in Siblings(B) : Slice(cache, A, mt) # {})
               => search'.pc = "cached"
            /\ (/\ search.pc = "cached" /\ search'.pc = "done"
                /\ Slice(cache, B, mt) = {})
               => /\ search'.remote = 0
                  /\ \A A \in Siblings(B) : \A row \in Slice(cache, A, mt) :
                        row.kodi_id \in search.query.like
                        => \E res \in search'.results : res.kodi_id = row.kodi_id
                  /\ \A x, y \in search'.results : x.kodi_id = y.kodi_id => x = y
                  /\ \A res \in search'.results :
                        /\ res.kodi_id \in search.query.like
                        /\ \E A \in Siblings(B) : \E row \in Slice(cache, A, mt) :
                              row.kodi_id = res.kodi_id
      ]_vars

\* C19 witness: a search on list 2, which has no row, was answered from the rows that
\* syncs of list 1 (same host) left, without a remote call.
C19_Witness ==
    /\ search.pc = "done"
    /\ search.source = "cache"
    /\ search.listID = 2
    /\ search.remote = 0
    /\ Slice(cache, 2, CacheType(search.searchType)) = {}
    /\ \E res \in search.results : res.list_id = 1

(***************************************************************************)
(*                     PROPERTIES: PAYLOAD DECODING                        *)
(***************************************************************************)

\* The four ID fields in the order movie, episode, show, season.
IdFields == <<"movieid", "episodeid", "tvshowid", "seasonid">>

\* Position in IdFields of the first ID field that is set; 0 when none is.
FirstSet(p) ==
    IF \A k \in 1..4 : p[IdFields[k]] = 0 THEN 0
    ELSE CHOOSE k \in 1..4 : p[IdFields[k]] # 0 /\ \A j \in 1..(k - 1) : p[IdFields[j]] = 0

\* C20: the identity of a decoded entity is the value of the first ID field set, in
\* the order movie, episode, show, season (so the value of the only one set, when
\* exactly one is); the episode number is taken from the payload exactly when the
\* episode ID is the field chosen, the episode count exactly when the show ID or the
\* season ID is, and each is zero otherwise.
C20_IdentityPrecedence ==
    media.decoded
    => LET k == FirstSet(payload)
       IN  /\ (k # 0 => media.ID = payload[IdFields[k]])
           /\ media.Episode = (IF k = 2 THEN payload.episode ELSE 0)
           /\ media.EpisodeCount = (IF k \in {3, 4} THEN payload.episode ELSE 0)

\* C20 witness: an entity with episode ID and show ID both set, to different values,
\* was decoded to the episode ID with its episode number and no episode count.
C20_Witness ==
    /\ media.decoded
    /\ payload.movieid = 0
    /\ payload.episodeid # 0
    /\ payload.tvshowid # 0
    /\ payload.tvshowid # payload.episodeid
    /\ payload.episode # 0
    /\ media.ID = payload.episodeid
    /\ media.Episode = payload.episode
    /\ media.EpisodeCount = 0

\* C21: the runtime of a decoded entity is the first non-zero value among the runtime
\* field, the duration field and the duration of the first video track, in that order;
\* a non-zero runtime field is kept whatever the other two hold, and the runtime is
\* zero when none of the three is set.
C21_RuntimePrecedence ==
    media.decoded
    => LET first == IF Len(payload.video) > 0 THEN payload.video[1] ELSE 0
       IN  /\ (payload.runtime # 0 => media.Runtime = payload.runtime)
           /\ (payload.runtime = 0 /\ payload.duration # 0
                  => media.Runtime = payload.duration)
           /\ (payload.runtime = 0 /\ payload.duration = 0 => media.Runtime = first)

\* C21 witness: an entity with all three set, the runtime field differing from the other
\* two, was decoded to the runtime field.
C21_Witness ==
    /\ media.decoded
    /\ payload.runtime # 0
    /\ payload.duration # 0
    /\ payload.duration # payload.runtime
    /\ Len(payload.video) > 0
    /\ payload.video[1] # 0
    /\ payload.video[1] # payload.runtime
    /\ media.Runtime = payload.runtime

(***************************************************************************)
(*                        PROPERTIES: LIST CALL                            *)
(***************************************************************************)

\* C22: an entity whose payload sets none of the four ID fields is rejected: no decoded
\* entity of a list result has the identity 0, and no library_cache row written from a
\* list result has the remote ID 0.
C22_NoIdRejected ==
    /\ \A j \in DOMAIN listed.movies : listed.movies[j].decoded => listed.movies[j].ID # 0
    /\ \A row \in cache : row.kodi_id # 0

\* The decoding of the response fails: the body is no envelope, the result has no array
\* of movies, or an element of the array is ill typed.
DecodeFails(resp) ==
    \/ resp.kind \in {"body", "shape"}
    \/ resp.kind = "movies" /\ \E j \in DOMAIN resp.movies : ~resp.movies[j].typed

\* C23: a list call returns an error exactly when the transport fails or the envelope
\* carries an error, and the error then carries the remote code and message; when the
\* response cannot be decoded the call returns the empty collection and no error.
C23_ListCallErrors ==
    listed.pc # "idle"
    => /\ (listed.err # NoErr <=> response.kind \in {"transport", "error"})
       /\ (response.kind = "error"
             => /\ listed.err.code = response.error.code
                /\ listed.err.message = response.error.message)
       /\ (DecodeFails(response) => listed.movies = <<>> /\ listed.err = NoErr)

\* C23, second failure: a response whose first element is well typed and whose second
\* is not yields a non-empty collection with a nil error.
C23_PartialCollection ==
    /\ listed.pc = "returned"
    /\ response.kind = "movies"
    /\ Len(response.movies) = 2
    /\ response.movies[1].typed
    /\ ~response.movies[2].typed
    /\ listed.err = NoErr
    /\ Len(listed.movies) = 2

(***************************************************************************)
(*                     PROPERTIES: FUZZY SEARCH                            *)
(***************************************************************************)

\* Rank of the tier an entity belongs to for the lower-cased query q: 1 when its target
\* starts with q, 2 when it contains q elsewhere, 3 otherwise.
TierRank(q, item) ==
    IF HasPrefix(Target(item), q) THEN 1
    ELSE IF Contains(Target(item), q) THEN 2
    ELSE 3

\* C24: in the output of FuzzySearch every entity whose target has the query as a
\* prefix comes before every entity that only contains it, and every entity that
\* contains it comes before every entity admitted by edit distance only: along the
\* output the rank of the tier never decreases.
C24_TiersInOrder ==
    ranked.done
    => \A i \in 1..(Len(ranked.out) - 1) :
          TierRank(ToLower(library.query), ranked.out[i])
             <= TierRank(ToLower(library.query), ranked.out[i + 1])

\* C24 witness: an output with all three tiers in which a prefix match that came after
\* a fuzzy match and after a substring match in the input precedes both.
C24_Witness ==
    /\ ranked.done
    /\ \E i, j, k \in DOMAIN ranked.out :
         /\ i < j
         /\ j < k
         /\ ranked.out[i].id > ranked.out[j].id
         /\ ranked.out[i].id > ranked.out[k].id
         /\ TierRank(ToLower(library.query), ranked.out[i]) = 1
         /\ TierRank(ToLower(library.query), ranked.out[j]) = 2
         /\ TierRank(ToLower(library.query), ranked.out[k]) = 3

\* C25: entities of equal score appear in the output in the order of the input.
C25_TiesKeepEncounterOrder ==
    ranked.done
    => \A i, j \in DOMAIN ranked.out :
          (i < j /\ ranked.scores[i] = ranked.scores[j])
          => ranked.out[i].id < ranked.out[j].id

\* The entities of the input that one of the three tiers admitted, by position.
Admitted == {ranked.results[k].item.id : k \in DOMAIN ranked.results}

\* The entities of the output, by position in the input.
Kept == {ranked.out[i].id : i \in DOMAIN ranked.out}

\* C26: the output holds at most 20 entities, each an admitted entity of the input and
\* none twice; it holds all admitted entities when they are at most 20, and otherwise
\* no entity left out has a lower score than an entity kept.
C26_CapKeepsLowest ==
    ranked.done
    => /\ Len(ranked.out) <= 20
       /\ Kept \subseteq Admitted
       /\ \A i \in DOMAIN ranked.out : library.items[ranked.out[i].id] = ranked.out[i]
       /\ Cardinality(Kept) = Len(ranked.out)
       /\ Len(ranked.out) = (IF Len(ranked.results) > 20 THEN 20 ELSE Len(ranked.results))
       /\ \A k \in DOMAIN ranked.results :
            ranked.results[k].item.id \notin Kept
            => \A i \in DOMAIN ranked.out : ranked.scores[i] <= ranked.results[k].score

\* C26 witness: more than 20 entities were admitted, one entity was admitted by no
\* tier, and the 20 kept include an entity that came later in the input than one left
\* out.
C26_Witness ==
    /\ ranked.done
    /\ Len(ranked.results) > 20
    /\ Len(ranked.results) < Len(library.items)
    /\ Len(ranked.out) = 20
    /\ \E k \in Admitted \ Kept : \E i \in Kept : i > k

\* C27: an entity that matches neither as prefix nor as substring is admitted exactly
\* when the edit distance between query and target is at most max(3, length of the
\* query / 2), the length counted in characters, with that distance as its score; it
\* is excluded otherwise.
C27_FuzzyAdmission ==
    scored.done
    => LET q      == ToLower(probe.query)
           target == Target(probe)
           dist   == levenshtein(q, target)
           limit  == IF Len(q) \div 2 < 3 THEN 3 ELSE Len(q) \div 2
       IN  (~HasPrefix(target, q) /\ ~Contains(target, q))
           => /\ (scored.tier = "fuzzy" <=> dist <= limit)
              /\ (scored.tier = "fuzzy" => scored.score = dist)
              /\ (scored.tier # "fuzzy" => scored.tier = "none")

\* C27 for a query of one-byte characters, where the length in bytes is the length in
\* characters.
C27_OneByteQueries ==
    (scored.done /\ ByteLen(probe.query) = Len(probe.query)) => C27_FuzzyAdmission

(***************************************************************************)
(*                   PROPERTIES: LIBRARY SYNCHRONIZER, COUNT               *)
(***************************************************************************)

\* C28: the count a successful sync reports is the number of rows library_cache holds
\* for the list and kind when the sync responds (stated for a sync that ran with no
\* other request and whose clear succeeded).
C28_CountIsRows ==
    [][\A r \in Reqs :
         (/\ req[r].pc = "add"
          /\ req'[r].pc = "done"
          /\ req'[r].status = "success"
          /\ req[r].alone
          /\ req[r].clearOk)
         => req'[r].count
              = Cardinality(Slice(cache', req[r].listID, DbType(req[r].syncType)))]_vars

(***************************************************************************)
(*                  PROPERTIES: IMAGE CACHE, FILE NAMES                    *)
(***************************************************************************)

\* Two entities with the same kind, slugified title and year.
SameAsset(e1, e2) ==
    /\ e1.mediaType = e2.mediaType
    /\ slugify(e1.Title) = slugify(e2.Title)
    /\ e1.Year = e2.Year

Inserts(a) ==
    /\ adders'[a].pc = "done"
    /\ adders[a].pc = "insert" \/ adders'[a].calls # adders[a].calls
    /\ adders'[a].inserted

\* Highest sort order of list l in table t, -1 when the list is empty.
Bottom(t, l) ==
    IF \E row \in t : row.list_id = l
    THEN CHOOSE n \in {row.sort_order : row \in t} :
            /\ \E row \in t : row.list_id = l /\ row.sort_order = n
            /\ \A row \in t : row.list_id = l => row.sort_order <= n
    ELSE -1

\* C30: AddItem places the new item by its sort order.  With -1 every item of the list
\* moves down by one and the new item gets 0, in one step; with 0 the new item gets the
\* current maximum of the list plus one (0 for an empty list); a value above 0 is used
\* as given.  Nothing else changes in the table.
C30_AddItemPositions ==
    [][\A a \in Adders :
         Inserts(a)
         => LET key  == adders'[a].key
                mode == adders'[a].mode
            IN  /\ mode = -1
                     => itemRows' = ShiftDown(itemRows, key.list_id) \cup {ItemRow(key, 0)}
                /\ mode = 0
                     => itemRows' = itemRows
                           \cup {ItemRow(key, Bottom(itemRows, key.list_id) + 1)}
                /\ mode > 0
                     => itemRows' = itemRows \cup {ItemRow(key, mode)}]_vars

\* C30 without the add-to-bottom mode: the positions of the add-to-top mode and of
\* the explicit mode are as stated.
C30_TopAndExplicit ==
    [][\A a \in Adders :
         Inserts(a)
         => LET key  == adders'[a].key
                mode == adders'[a].mode
            IN  /\ mode = -1
                     => itemRows' = ShiftDown(itemRows, key.list_id) \cup {ItemRow(key, 0)}
                /\ mode > 0
                     => itemRows' = itemRows \cup {ItemRow(key, mode)}]_vars

(***************************************************************************)
(*             PROPERTIES: LIBRARY SYNCHRONIZER, CONTENT TYPES             *)
(***************************************************************************)

\* C31: a sync request whose content type is neither "movie" nor "tv" never changes
\* library_cache and never answers with status "success".
C31_UnsupportedTypeRejected ==
    [][\A r \in Reqs :
         (req'[r].syncType \in UnsupportedTypes /\ req'[r] # req[r])
         => (cache' = cache /\ req'[r].status # "success")]_vars

\* A request for "movies" has gone through the clear and the insert and answered
\* success with count 0, leaving no movie row in its list.
C31_PluralAnswersSuccess ==
    \E r \in Reqs :
        /\ req[r].pc = "done"
        /\ req[r].syncType = "movies"
        /\ req[r].wrote
        /\ req[r].status = "success"
        /\ req[r].count = 0
        /\ Slice(cache, req[r].listID, "movie") = {}

(***************************************************************************)
(*                PROPERTIES: IMAGE CACHE, COMPLETE FILES                  *)
(***************************************************************************)

\* C32: a call of downloadBestImage that returns a non-empty local reference, from the
\* fast path or under the lock, returns it for a file that is completely written.
C32_ReferenceToCompleteFile ==
    [][\A c \in Callers :
         (/\ callers[c].pc # "done"
          /\ callers'[c].pc = "done"
          /\ callers'[c].ref # NoRef)
         => files'[callers'[c].key] = "complete"]_vars

\* A caller holds the reference of a file whose copy failed part-way, with no other
\* call in progress.
C32_ReferenceToFailedWrite ==
    \E c \in Callers :
        /\ callers[c].pc = "done"
        /\ callers[c].ref # NoRef
        /\ files[callers[c].key] = "partial"
        /\ \A o \in Callers : callers[o].pc \in {"idle", "done"}

(***************************************************************************)
(*               PROPERTIES: SEARCH CONCURRENT WITH A SYNC                 *)
(***************************************************************************)

\* A sync handler has cleared a populated slice of the host and kind the search reads
\* and has not yet inserted the new rows.
Replacing(r, l, mt) ==
    /\ req[r].pc = "add"
    /\ req[r].prev # {}
    /\ KodiHost(req[r].listID) = KodiHost(l)
    /\ DbType(req[r].syncType) = mt

\* C33: a search that runs while a sync replaces a populated slice of its host and kind
\* sees a complete generation: its probe does not find the cache empty and fall back
\* to the remote device, and the rows it reads are those of the generation being
\* replaced.
C33_SearchSeesCompleteGeneration ==
    [][\A r \in Reqs :
         LET l  == search'.listID
             mt == CacheType(search'.searchType)
         IN  /\ (search.pc = "idle" /\ search'.pc # "idle" /\ Replacing(r, l, mt))
                => search'.pc = "cached"
             /\ (search.pc = "cached" /\ search'.pc = "done" /\ Replacing(r, l, mt))
                => search'.results
                     = SearchLibraryCache(cache \cup req[r].prev, l, mt, search.query)
      ]_vars

\* A search went to the remote device while a sync held the cleared rows of its own
\* list and kind.
C33_LiveDuringReplacement ==
    /\ search.pc = "live"
    /\ \E r \in Reqs : /\ Replacing(r, search.listID, CacheType(search.searchType))
                       /\ req[r].listID = search.listID

(***************************************************************************)
(*          PROPERTIES: WATCH-LIST ITEMS, DUPLICATES AND THE BOTTOM        *)
(***************************************************************************)

\* The AddItem call of adder a returns in this step without a store failure, for an
\* item whose key a row of the table already has.
AddsDuplicate(a) ==
    /\ adders'[a].pc = "done"
    /\ adders[a].pc = "insert" \/ adders'[a].calls # adders[a].calls
    /\ ~adders'[a].err
    /\ \E row \in itemRows : KeyOf(row) = adders'[a].key

\* C34: AddItem for an item that is already in the list (same list, remote ID, media
\* type and season) leaves table items as it is, in every sort-order mode: no row is
\* added and no row's sort order changes.
C34_DuplicateAddChangesNothing ==
    [][\A a \in Adders : AddsDuplicate(a) => itemRows' = itemRows]_vars

\* C34 without the add-to-top mode: a duplicate added to the bottom or at an explicit
\* position changes nothing.
C34_BottomAndExplicit ==
    [][\A a \in Adders :
         (AddsDuplicate(a) /\ adders'[a].mode # -1) => itemRows' = itemRows]_vars

\* The sort order of the row with the key in table t.
OrderOf(t, key) == (CHOOSE row \in t : KeyOf(row) = key).sort_order

\* C35: two add-to-bottom calls on the same list that both inserted their item leave
\* the two items at distinct sort orders, and the sort order an add-to-bottom call
\* chooses is above that of every item the list held when the call read it.
C35_BottomAddsDistinct ==
    [][/\ \A a, b \in Adders :
             (/\ a # b
              /\ adders'[a].pc = "done" /\ adders'[b].pc = "done"
              /\ adders'[a].mode = 0 /\ adders'[b].mode = 0
              /\ adders'[a].inserted /\ adders'[b].inserted
              /\ adders'[a].key.list_id = adders'[b].key.list_id)
             => OrderOf(itemRows', adders'[a].key) # OrderOf(itemRows', adders'[b].key)
       /\ \A a \in Adders :
             (adders'[a].pc = "insert" /\ adders[a].pc # "insert" /\ adders'[a].mode = 0)
             => \A row \in itemRows :
                   row.list_id = adders'[a].key.list_id
                   => adders'[a].SortOrder > row.sort_order
      ]_vars

\* Two add-to-bottom calls that ran at the same time on an empty list, with no other
\* call made, both inserted at sort order 0.
C35_BothAtZero ==
    /\ CallsOf(adders, Adders) = 2
    /\ Cardinality(itemRows) = 2
    /\ \A a \in {1, 2} : adders[a].pc = "done" /\ adders[a].mode = 0
    /\ \A row \in itemRows : row.sort_order = 0 /\ row.list_id = 1

(***************************************************************************)
(*                     PROPERTIES: CONFIGURED LISTS                        *)
(***************************************************************************)

\* The last entry of cfg for the (group_name, name) of row; 0 when there is none.
LastEntry(cfg, row) ==
    LET hits == {i \in DOMAIN cfg : /\ cfg[i].group_name = row.group_name
                                    /\ cfg[i].name = row.name}
    IN  IF hits = {} THEN 0 ELSE SetMax(hits)

AtCurrentVersionNoOp ==
    (hist.startups > 0 /\ CurrentVersion(hist.dbAtOpen) = NumMigrations)
    => (hist.attempted = <<>> /\ ~hist.ranDetect /\ db = hist.dbAtOpen)

\* C37 as stated: a run on a store at the current version applies no step and changes
\* nothing; the highest recorded version never decreases; and it always equals the
\* number of migration steps that have committed.
C37_VersionCountsSteps ==
    [][/\ AtCurrentVersionNoOp'
       /\ CurrentVersion(db') >= CurrentVersion(db)
       /\ CurrentVersion(db') = hist'.committed]_vars

\* C37: a run on a store at the current version applies no step and changes nothing;
\* the highest recorded version never decreases; and it always equals the version the
\* legacy detection persisted (zero when it persisted none) plus the number of
\* migration steps that have committed since.
C37_VersionIsBasePlusSteps ==
    [][/\ AtCurrentVersionNoOp'
       /\ CurrentVersion(db') >= CurrentVersion(db)
       /\ CurrentVersion(db') = hist'.inferred + hist'.committed]_vars

\* C37 witness: a store of a v1.1.0 build without version marker was detected as
\* version 2 at the first startup, and a later startup, finding it at the current
\* version, has returned without beginning a step.
C37_Witness ==
    /\ hist.startups >= 2
    /\ mpc = "ok"
    /\ hist.db0 \in LegacyV2DBs
    /\ hist.db0.rows # <<>>
    /\ hist.inferred = 2
    /\ hist.committed = 0
    /\ CurrentVersion(hist.dbAtOpen) = NumMigrations
    /\ hist.attempted = <<>>
    /\ db = hist.dbAtOpen

(***************************************************************************)
(*                     PROPERTIES: EDIT DISTANCE                           *)
(***************************************************************************)

\* The edit distance by its definition: the least number of insertions, deletions and
\* substitutions of one rune that turn a into b.
RECURSIVE EditDistance(_, _)
EditDistance(a, b) ==
    IF a = <<>> THEN Len(b)
    ELSE IF b = <<>> THEN Len(a)
    ELSE min(EditDistance(Tail(a), Tail(b)) + (IF Head(a) = Head(b) THEN 0 ELSE 1),
             min(EditDistance(Tail(a), b) + 1, EditDistance(a, Tail(b)) + 1))

\* levenshtein agrees with the definition on a and b, in both orders.
DistanceCorrect(a, b) ==
    /\ levenshtein(a, b) = EditDistance(a, b)
    /\ levenshtein(b, a) = levenshtein(a, b)

\* C38: levenshtein(s1, s2) is the edit distance of s1 and s2 and is symmetric, for
\* the pair FuzzySearch hands to it (lower-cased query and target) and for the query
\* and title as they were given.
C38_LevenshteinIsEditDistance ==
    scored.done
    => /\ DistanceCorrect(ToLower(probe.query), Target(probe))
       /\ DistanceCorrect(probe.query, probe.Title)

\* C38 witness: an entity admitted by edit distance for a query longer than its
\* target, at a distance that needs a deletion and a substitution.
C38_Witness ==
    /\ scored.done
    /\ scored.tier = "fuzzy"
    /\ Len(probe.query) = Len(Target(probe)) + 1
    /\ scored.score = 2
    /\ \E i \in DOMAIN Target(probe) : Target(probe)[i] = ToLower(probe.query)[i]

====
